---- MODULE Spec2Model ----
(***************************************************************************)
(* Model of the embedded key-value protocol client (RedisLite): the RESP   *)
(* frame codec, the connection manager with its handshake, and the         *)
(* command pipeline, the fixed-window rate limiter built on the store's    *)
(* counters, and the captcha with its code record and mismatch counter.    *)
(* Buffers are sequences of byte values, offsets are 0-based as in the     *)
(* source, strings are sequences of UTF-16 code units.                     *)
(***************************************************************************)
EXTENDS Integers, Sequences, FiniteSets, TLC

\* ------------------------------------------------------------------------
\* Bounds of the model
\* ------------------------------------------------------------------------
MaxSockets == 2
MaxCmds == 2
MaxFrames == 2

\* ------------------------------------------------------------------------
\* Byte values the codec branches on
\* ------------------------------------------------------------------------
PLUS == 43
MINUS == 45
COLON == 58
DOLLAR == 36
STAR == 42
CR == 13
LF == 10
ZERO == 48

Digits == 48..57
Whitespace == {9, 10, 11, 12, 13, 32}

Max(a, b) == IF a >= b THEN a ELSE b

\* ------------------------------------------------------------------------
\* JavaScript values produced by the decoder
\* ------------------------------------------------------------------------
JsString(cp) == [t |-> "string", s |-> cp, n |-> 0, a |-> <<>>]
JsNumber(k) == [t |-> "number", s |-> <<>>, n |-> k, a |-> <<>>]
JsNull == [t |-> "null", s |-> <<>>, n |-> 0, a |-> <<>>]
JsArray(xs) == [t |-> "array", s |-> <<>>, n |-> 0, a |-> xs]
RedisRespError(msg) == [t |-> "error", s |-> msg, n |-> 0, a |-> <<>>]

\* buf.subarray(from, to): bytes at 0-based offsets from .. to-1
Subarray(buf, from, to) == SubSeq(buf, from + 1, to)

\* Strings are sequences of UTF-16 code units
HighSurrogates == 55296..56319
LowSurrogates == 56320..57343
Continuation == 128..191

\* buf.toString("utf8"): well-formed sequences of one to four bytes are
\* decoded (four bytes to a surrogate pair), any other byte is replaced by
\* U+FFFD
RECURSIVE Utf8ToString(_)
Utf8ToString(bytes) ==
  IF bytes = <<>> THEN <<>>
  ELSE LET b == Head(bytes)
           n == Len(bytes)
           c2 == (b - 192) * 64 + (bytes[2] - 128)
           c3 == (b - 224) * 4096 + (bytes[2] - 128) * 64 + (bytes[3] - 128)
           c4 == (b - 240) * 262144 + (bytes[2] - 128) * 4096
                   + (bytes[3] - 128) * 64 + (bytes[4] - 128)
       IN
       IF b < 128 THEN <<b>> \o Utf8ToString(Tail(bytes))
       ELSE IF b \in 194..223 /\ n >= 2 /\ bytes[2] \in Continuation
       THEN <<c2>> \o Utf8ToString(SubSeq(bytes, 3, n))
       ELSE IF /\ b \in 224..239 /\ n >= 3
               /\ bytes[2] \in Continuation /\ bytes[3] \in Continuation
               /\ c3 >= 2048 /\ c3 \notin HighSurrogates \cup LowSurrogates
       THEN <<c3>> \o Utf8ToString(SubSeq(bytes, 4, n))
       ELSE IF /\ b \in 240..244 /\ n >= 4
               /\ bytes[2] \in Continuation /\ bytes[3] \in Continuation
               /\ bytes[4] \in Continuation /\ c4 \in 65536..1114111
       THEN <<55296 + ((c4 - 65536) \div 1024), 56320 + ((c4 - 65536) % 1024)>>
              \o Utf8ToString(SubSeq(bytes, 5, n))
       ELSE <<65533>> \o Utf8ToString(Tail(bytes))

\* Buffer.from(str, "utf8"): a surrogate pair becomes four bytes, a surrogate
\* without its partner becomes the three bytes of U+FFFD
RECURSIVE StringToUtf8(_)
StringToUtf8(cp) ==
  IF cp = <<>> THEN <<>>
  ELSE LET c == Head(cp)
           u == 65536 + (c - 55296) * 1024 + (cp[2] - 56320)
       IN
       IF c < 128 THEN <<c>> \o StringToUtf8(Tail(cp))
       ELSE IF c < 2048 THEN <<192 + (c \div 64), 128 + (c % 64)>> \o StringToUtf8(Tail(cp))
       ELSE IF c \in HighSurrogates /\ Len(cp) >= 2 /\ cp[2] \in LowSurrogates
       THEN <<240 + (u \div 262144), 128 + ((u \div 4096) % 64),
              128 + ((u \div 64) % 64), 128 + (u % 64)>> \o StringToUtf8(SubSeq(cp, 3, Len(cp)))
       ELSE IF c \in HighSurrogates \cup LowSurrogates
       THEN <<239, 191, 189>> \o StringToUtf8(Tail(cp))
       ELSE <<224 + (c \div 4096), 128 + ((c \div 64) % 64), 128 + (c % 64)>> \o StringToUtf8(Tail(cp))

RECURSIVE DecimalValue(_)
DecimalValue(ds) ==
  IF ds = <<>> THEN 0
  ELSE DecimalValue(SubSeq(ds, 1, Len(ds) - 1)) * 10 + (ds[Len(ds)] - ZERO)

RECURSIVE TrimLeft(_)
TrimLeft(cp) ==
  IF cp # <<>> /\ Head(cp) \in Whitespace THEN TrimLeft(Tail(cp)) ELSE cp

RECURSIVE TrimRight(_)
TrimRight(cp) ==
  IF cp # <<>> /\ cp[Len(cp)] \in Whitespace THEN TrimRight(SubSeq(cp, 1, Len(cp) - 1)) ELSE cp

IsDigits(cp) == cp # <<>> /\ \A i \in 1..Len(cp) : cp[i] \in Digits

\* faulty variant: a sign before the digits is not understood
ToNumberUnsigned(line) ==
  LET t == TrimRight(TrimLeft(line)) IN
  IF t = <<>> THEN [fin |-> TRUE, n |-> 0]
  ELSE IF IsDigits(t) THEN [fin |-> TRUE, n |-> DecimalValue(t)]
  ELSE [fin |-> FALSE, n |-> 0]

\* Number(line) on decimal integer literals: surrounding white space is
\* ignored, the empty string is 0, an optional sign may precede the digits,
\* anything else is NaN (fin = FALSE)
ToNumber(line) ==
  LET t == TrimRight(TrimLeft(line)) IN
  IF t = <<>> THEN [fin |-> TRUE, n |-> 0]
  ELSE IF IsDigits(t) THEN [fin |-> TRUE, n |-> DecimalValue(t)]
  ELSE IF Head(t) = MINUS /\ IsDigits(Tail(t)) THEN [fin |-> TRUE, n |-> 0 - DecimalValue(Tail(t))]
  ELSE IF Head(t) = PLUS /\ IsDigits(Tail(t)) THEN [fin |-> TRUE, n |-> DecimalValue(Tail(t))]
  ELSE [fin |-> FALSE, n |-> 0]

\* String(n) for an integer n
RECURSIVE NatToString(_)
NatToString(k) ==
  IF k < 10 THEN <<ZERO + k>> ELSE NatToString(k \div 10) \o <<ZERO + (k % 10)>>

IntToString(k) == IF k < 0 THEN <<MINUS>> \o NatToString(0 - k) ELSE NatToString(k)

\* buf.indexOf("\r\n", from): 0-based offset of the first CR LF at or after
\* from, or -1
IndexOfCRLF(buf, from) ==
  LET hits == {i \in Max(from, 0)..(Len(buf) - 2) : buf[i + 1] = CR /\ buf[i + 2] = LF}
  IN IF hits = {} THEN 0 - 1 ELSE CHOOSE i \in hits : \A k \in hits : i <= k

Incomplete == [ok |-> FALSE, value |-> JsNull, next |-> 0]
Parsed(v, nx) == [ok |-> TRUE, value |-> v, next |-> nx]

ReadLine(buf, from) ==
  LET idx == IndexOfCRLF(buf, from) IN
  IF idx = 0 - 1 THEN [ok |-> FALSE, line |-> <<>>, next |-> 0]
  ELSE [ok |-> TRUE, line |-> Utf8ToString(Subarray(buf, from, idx)), next |-> idx + 2]

\* tryParseResp.parseAt; ParseElems is the loop of the array branch
RECURSIVE ParseAt(_, _), ParseElems(_, _, _, _)
ParseAt(buf, offset) ==
  IF offset >= Len(buf) THEN Incomplete
  ELSE LET p == buf[offset + 1]
           r == ReadLine(buf, offset + 1)
           num == ToNumber(r.line)
       IN
       IF p = PLUS THEN
         IF ~r.ok THEN Incomplete ELSE Parsed(JsString(r.line), r.next)
       ELSE IF p = MINUS THEN
         IF ~r.ok THEN Incomplete ELSE Parsed(RedisRespError(r.line), r.next)
       ELSE IF p = COLON THEN
         IF ~r.ok THEN Incomplete
         ELSE Parsed(JsNumber(IF num.fin THEN num.n ELSE 0), r.next)
       ELSE IF p = DOLLAR THEN
         IF ~r.ok THEN Incomplete
         ELSE IF num.fin /\ num.n = 0 - 1 THEN Parsed(JsNull, r.next)
         ELSE IF ~num.fin \/ num.n < 0 THEN Parsed(JsNull, r.next)
         ELSE LET end == r.next + num.n IN
              IF Len(buf) < end + 2 THEN Incomplete
              ELSE Parsed(JsString(Utf8ToString(Subarray(buf, r.next, end))), end + 2)
       ELSE IF p = STAR THEN
         IF ~r.ok THEN Incomplete
         ELSE IF num.fin /\ num.n = 0 - 1 THEN Parsed(JsNull, r.next)
         ELSE IF ~num.fin \/ num.n < 0 THEN Parsed(JsArray(<<>>), r.next)
         ELSE ParseElems(buf, r.next, num.n, <<>>)
       ELSE Incomplete

\* faulty variant: an array whose next element is incomplete is returned with
\* the elements decoded so far
ParseElemsPartial(buf, next, count, out) ==
  IF Len(out) >= count THEN Parsed(JsArray(out), next)
  ELSE LET v == ParseAt(buf, next) IN
       IF ~v.ok THEN Parsed(JsArray(out), next)
       ELSE ParseElems(buf, v.next, count, Append(out, v.value))

ParseElems(buf, next, count, out) ==
  IF Len(out) >= count THEN Parsed(JsArray(out), next)
  ELSE LET v == ParseAt(buf, next) IN
       IF ~v.ok THEN Incomplete
       ELSE ParseElems(buf, v.next, count, Append(out, v.value))

NoParse == [ok |-> FALSE, value |-> JsNull, rest |-> <<>>]

tryParseResp(buf) ==
  IF Len(buf) = 0 THEN NoParse
  ELSE LET parsed == ParseAt(buf, 0) IN
       IF ~parsed.ok THEN NoParse
       ELSE [ok |-> TRUE, value |-> parsed.value, rest |-> Subarray(buf, parsed.next, Len(buf))]

\* faulty variant: the length written is the number of code units of the
\* argument
RECURSIVE EncodePartsUnits(_)
EncodePartsUnits(parts) ==
  IF parts = <<>> THEN <<>>
  ELSE LET b == StringToUtf8(Head(parts)) IN
       <<DOLLAR>> \o IntToString(Len(Head(parts))) \o <<CR, LF>> \o b \o <<CR, LF>>
         \o EncodePartsUnits(Tail(parts))

\* encodeCommand
RECURSIVE EncodeParts(_)
EncodeParts(parts) ==
  IF parts = <<>> THEN <<>>
  ELSE LET b == StringToUtf8(Head(parts)) IN
       <<DOLLAR>> \o IntToString(Len(b)) \o <<CR, LF>> \o b \o <<CR, LF>> \o EncodeParts(Tail(parts))

encodeCommand(parts) ==
  <<STAR>> \o IntToString(Len(parts)) \o <<CR, LF>> \o EncodeParts(parts)


\* ------------------------------------------------------------------------
\* State
\* ------------------------------------------------------------------------
VARIABLES
  info,        \* RedisLite.info: the connection target
  socket,      \* RedisLite.socket: 0 is null, otherwise the id of a net.Socket
  buffer,      \* RedisLite.buffer
  pending,     \* RedisLite.pending: job ids, oldest first
  connecting,  \* RedisLite.connecting: 0 is null, otherwise the attempt whose promise it holds
  sock,        \* the net.Socket objects created so far
  hs,          \* position of each attempt's connect handler
  promise,     \* state of each attempt's connecting promise
  waiters,     \* jobs suspended in "await this.ensureConnected()", in call order
  jobs,        \* every rawCommand call made so far
  nJobs,       \* number of rawCommand calls made so far
  nSockets,    \* number of sockets created so far
  bufSrc,      \* for each byte of buffer, the socket it was received on
  stream,      \* the reply frames fed to the decoder in SpecChunk, in order
  url,         \* env.redisUrl as the URL parser sees it
  store,       \* the store's counters: value and time to live of each key
  now,         \* seconds elapsed at the store
  reqs,        \* the API requests passing through the rate limiter
  win,         \* for each key, the window of the clock its INCRs fall in
  tok,         \* the captcha records of one token at the store
  vreqs,       \* the query requests verifying a captcha
  issued,      \* the cookie the captcha handler has handed out: none, id or code
  tally,       \* for the token, the guesses compared, found wrong and accepted
  life         \* for each key, the lifetimes of its counter and the checks allowed in each

vars == <<info, socket, buffer, pending, connecting, sock, hs, promise, waiters, jobs,
          nJobs, nSockets, bufSrc, stream, url, store, now, reqs, win, tok, vreqs, issued,
          tally, life>>

clientVars == <<info, socket, buffer, pending, connecting, sock, hs, promise, waiters, jobs,
                nJobs, nSockets, bufSrc, stream>>

rateVars == <<url, store, now, reqs, win, life>>

NoString == <<>>
NoDb == 0 - 1
StrUser == <<117>>
StrSecret == <<112>>
StrAUTH == <<65, 85, 84, 72>>
StrSELECT == <<83, 69, 76, 69, 67, 84>>
StrGET == <<71, 69, 84>>
StrKey == <<107>>

MaxJobs == MaxCmds + 2 * MaxSockets
SocketIds == 1..MaxSockets
JobIds == 1..MaxJobs

\* RedisConnInfo values parseRedisUrl can return: a username only together
\* with a password, db null or a non-negative integer
ConnInfos ==
  {i \in [username : {NoString, StrUser}, password : {NoString, StrSecret}, db : {NoDb, 0}] :
     i.username # NoString => i.password # NoString}

\* A socket.  History: late, an "error" or "close" of this socket was
\* emitted while the client held another socket
NoSocket == [st |-> "none", listeners |-> FALSE, out |-> <<>>, srv |-> 0, wire |-> <<>>,
             nSent |-> 0, nFrames |-> 0, late |-> FALSE]
NoJob == [kind |-> "none", parts |-> <<>>, status |-> "none", value |-> JsNull, done |-> 0,
          sock |-> 0, att |-> 0, issuedIn |-> 0, sendOrd |-> 0, frameOrd |-> 0, src |-> {},
          hsAt |-> "none"]
NoHandshake == [pc |-> "none", job |-> 0]

\* socket.destroyed
Destroyed(S, s) == S.sock[s].st \in {"destroyed", "closed"}

\* The current state as one record, so that handlers compose as functions
Cur == [socket |-> socket, buffer |-> buffer, pending |-> pending, connecting |-> connecting,
        sock |-> sock, hs |-> hs, promise |-> promise, waiters |-> waiters, jobs |-> jobs,
        nJobs |-> nJobs, nSockets |-> nSockets, bufSrc |-> bufSrc]

Becomes(S) ==
  /\ socket' = S.socket
  /\ buffer' = S.buffer
  /\ pending' = S.pending
  /\ connecting' = S.connecting
  /\ sock' = S.sock
  /\ hs' = S.hs
  /\ promise' = S.promise
  /\ waiters' = S.waiters
  /\ jobs' = S.jobs
  /\ nJobs' = S.nJobs
  /\ nSockets' = S.nSockets
  /\ bufSrc' = S.bufSrc
  /\ UNCHANGED <<info, stream>>
  /\ UNCHANGED rateVars
  /\ UNCHANGED <<tok, vreqs, issued, tally>>

\* ------------------------------------------------------------------------
\* Promise plumbing
\* ------------------------------------------------------------------------
\* job.resolve(v) / job.reject(e): the first call settles the promise, every
\* call is counted
JobResolve(S, j, v) ==
  [S EXCEPT !.jobs[j].done = @ + 1,
            !.jobs[j].status = IF @ \in {"resolved", "rejected"} THEN @ ELSE "resolved",
            !.jobs[j].value = IF S.jobs[j].status \in {"resolved", "rejected"} THEN @ ELSE v]

JobReject(S, j, e) ==
  [S EXCEPT !.jobs[j].done = @ + 1,
            !.jobs[j].status = IF @ \in {"resolved", "rejected"} THEN @ ELSE "rejected",
            !.jobs[j].value = IF S.jobs[j].status \in {"resolved", "rejected"} THEN @ ELSE e]

RECURSIVE RejectEach(_, _, _)
RejectEach(S, js, e) ==
  IF js = <<>> THEN S ELSE RejectEach(JobReject(S, Head(js), e), Tail(js), e)

\* resolve() / reject(e) of the executor in ensureConnected
ConnResolve(S, a) ==
  [S EXCEPT !.promise[a] = IF @ = "pending" THEN "resolved" ELSE @]
ConnReject(S, a) ==
  [S EXCEPT !.promise[a] = IF @ = "pending" THEN "rejected" ELSE @]

ConnectionClosed == RedisRespError(<<>>)

\* ------------------------------------------------------------------------
\* RedisLite
\* ------------------------------------------------------------------------
\* faulty variant: pop() in place of shift()
ShiftNewest(q) == [job |-> q[Len(q)], rest |-> SubSeq(q, 1, Len(q) - 1)]

\* this.pending.shift(): the oldest job and the remaining queue
Shift(q) == [job |-> Head(q), rest |-> Tail(q)]

\* faulty variant: an error reply rejects every pending job and drops the socket
RECURSIVE DrainFramesTearDown(_, _)
DrainFramesTearDown(S, s) ==
  LET parsed == tryParseResp(S.buffer) IN
  IF ~parsed.ok THEN S
  ELSE LET used == Len(S.buffer) - Len(parsed.rest)
           from == {S.bufSrc[i] : i \in 1..used}
           k == S.sock[s].nFrames + 1
           S1 == [S EXCEPT !.buffer = parsed.rest,
                           !.bufSrc = SubSeq(S.bufSrc, used + 1, Len(S.bufSrc)),
                           !.sock[s].nFrames = k]
       IN IF S.pending = <<>> THEN DrainFramesTearDown(S1, s)
          ELSE LET job == Shift(S.pending).job
                   S2 == [S1 EXCEPT !.pending = Shift(S.pending).rest,
                                    !.jobs[job].frameOrd = k,
                                    !.jobs[job].src = from]
               IN IF parsed.value.t = "error"
                  THEN RejectEach([S2 EXCEPT !.pending = <<>>, !.socket = 0],
                                  S.pending, parsed.value)
                  ELSE DrainFramesTearDown(JobResolve(S2, job, parsed.value), s)

\* faulty variant: the loop ends at the first frame that finds the queue empty
RECURSIVE DrainFramesStop(_, _)
DrainFramesStop(S, s) ==
  LET parsed == tryParseResp(S.buffer) IN
  IF ~parsed.ok THEN S
  ELSE LET used == Len(S.buffer) - Len(parsed.rest)
           from == {S.bufSrc[i] : i \in 1..used}
           k == S.sock[s].nFrames + 1
           S1 == [S EXCEPT !.buffer = parsed.rest,
                           !.bufSrc = SubSeq(S.bufSrc, used + 1, Len(S.bufSrc)),
                           !.sock[s].nFrames = k]
       IN IF S.pending = <<>> THEN S1
          ELSE LET job == Shift(S.pending).job
                   S2 == [S1 EXCEPT !.pending = Shift(S.pending).rest,
                                    !.jobs[job].frameOrd = k,
                                    !.jobs[job].src = from]
               IN IF parsed.value.t = "error"
                  THEN DrainFramesStop(JobReject(S2, job, parsed.value), s)
                  ELSE DrainFramesStop(JobResolve(S2, job, parsed.value), s)

\* the while loop of onData
RECURSIVE DrainFrames(_, _)
DrainFrames(S, s) ==
  LET parsed == tryParseResp(S.buffer) IN
  IF ~parsed.ok THEN S
  ELSE LET used == Len(S.buffer) - Len(parsed.rest)
           from == {S.bufSrc[i] : i \in 1..used}
           k == S.sock[s].nFrames + 1
           S1 == [S EXCEPT !.buffer = parsed.rest,
                           !.bufSrc = SubSeq(S.bufSrc, used + 1, Len(S.bufSrc)),
                           !.sock[s].nFrames = k]
       IN IF S.pending = <<>> THEN DrainFrames(S1, s)
          ELSE LET job == Shift(S.pending).job
                   S2 == [S1 EXCEPT !.pending = Shift(S.pending).rest,
                                    !.jobs[job].frameOrd = k,
                                    !.jobs[job].src = from]
               IN IF parsed.value.t = "error"
                  THEN DrainFrames(JobReject(S2, job, parsed.value), s)
                  ELSE DrainFrames(JobResolve(S2, job, parsed.value), s)

\* faulty variant: the chunk replaces the buffer instead of being appended to it
onDataNoConcat(S, data, s) ==
  DrainFrames([S EXCEPT !.buffer = data,
                        !.bufSrc = [i \in 1..Len(data) |-> s]], s)

\* onData, called for a chunk received on socket s
onData(S, data, s) ==
  DrainFrames([S EXCEPT !.buffer = S.buffer \o data,
                        !.bufSrc = S.bufSrc \o [i \in 1..Len(data) |-> s]], s)

\* faulty variant: the pending queue is rejected but not replaced by an empty one
onCloseOrErrorKeepPending(S, err) ==
  LET S1 == [S EXCEPT !.sock = IF S.socket # 0
                                THEN [S.sock EXCEPT ![S.socket].listeners = FALSE]
                                ELSE S.sock,
                      !.socket = 0,
                      !.buffer = <<>>,
                      !.bufSrc = <<>>,
                      !.connecting = 0]
  IN RejectEach(S1, S.pending, err)

\* faulty variant: connecting is not reset
onCloseOrErrorKeepConnecting(S, err) ==
  LET S1 == [S EXCEPT !.sock = IF S.socket # 0
                                THEN [S.sock EXCEPT ![S.socket].listeners = FALSE]
                                ELSE S.sock,
                      !.socket = 0,
                      !.buffer = <<>>,
                      !.bufSrc = <<>>,
                      !.pending = <<>>]
  IN RejectEach(S1, S.pending, err)

\* faulty variant: the decode buffer is not reset
onCloseOrErrorKeepBuffer(S, err) ==
  LET S1 == [S EXCEPT !.sock = IF S.socket # 0
                                THEN [S.sock EXCEPT ![S.socket].listeners = FALSE]
                                ELSE S.sock,
                      !.socket = 0,
                      !.connecting = 0,
                      !.pending = <<>>]
  IN RejectEach(S1, S.pending, err)

\* faulty variant: the queue is replaced by an empty one and its requests are
\* left as they are
onCloseOrErrorDropPending(S, err) ==
  [S EXCEPT !.sock = IF S.socket # 0
                     THEN [S.sock EXCEPT ![S.socket].listeners = FALSE]
                     ELSE S.sock,
            !.socket = 0,
            !.buffer = <<>>,
            !.bufSrc = <<>>,
            !.connecting = 0,
            !.pending = <<>>]

\* faulty variant: the listeners of the dropped socket are left in place
onCloseOrErrorKeepListeners(S, err) ==
  LET S1 == [S EXCEPT !.socket = 0,
                      !.buffer = <<>>,
                      !.bufSrc = <<>>,
                      !.connecting = 0,
                      !.pending = <<>>]
  IN RejectEach(S1, S.pending, err)

onCloseOrError(S, err) ==
  LET S1 == [S EXCEPT !.sock = IF S.socket # 0
                                THEN [S.sock EXCEPT ![S.socket].listeners = FALSE]
                                ELSE S.sock,
                      !.socket = 0,
                      !.buffer = <<>>,
                      !.bufSrc = <<>>,
                      !.connecting = 0,
                      !.pending = <<>>]
  IN RejectEach(S1, S.pending, err)

\* faulty variant: the "error" listener does not reject the connecting promise
onErrorNoReject(S, a, e) == onCloseOrError(S, e)

\* the "error" listener of the socket of attempt a
onError(S, a, e) == ConnReject(onCloseOrError(S, e), a)

\* the "close" listener
onClose(S) == onCloseOrError(S, ConnectionClosed)

\* rawCommand after "await this.ensureConnected()" has returned
WriteCommand(S, j) ==
  LET s == S.socket IN
  IF s = 0 THEN JobReject(S, j, RedisRespError(<<>>))
  ELSE [S EXCEPT !.pending = Append(S.pending, j),
                 !.jobs[j].status = "pending",
                 !.jobs[j].sock = s,
                 !.jobs[j].sendOrd = S.sock[s].nSent + 1,
                 !.jobs[j].hsAt = S.hs[s].pc,
                 !.sock[s].nSent = @ + 1,
                 !.sock[s].out = IF Destroyed(S, s) THEN @ ELSE Append(@, j)]

\* ensureConnected, called by rawCommand for job j: returns at once, joins
\* the attempt in flight, or starts an attempt on a new socket
CanEnsure(S) ==
  \/ S.socket # 0 /\ ~Destroyed(S, S.socket)
  \/ S.connecting # 0
  \/ S.nSockets < MaxSockets

\* faulty variant: a caller that finds no live socket does not join the attempt in
\* flight but opens a socket of its own
ensureConnectedNoJoin(S, j) ==
  IF S.socket # 0 /\ ~Destroyed(S, S.socket) THEN WriteCommand(S, j)
  ELSE IF S.connecting # 0 /\ S.nSockets >= MaxSockets
  THEN [S EXCEPT !.jobs[j].status = "waiting",
                 !.jobs[j].att = S.connecting,
                 !.waiters = Append(S.waiters, j)]
  ELSE LET s == S.nSockets + 1 IN
       [S EXCEPT !.nSockets = s,
                 !.sock[s] = [NoSocket EXCEPT !.st = "connecting", !.listeners = TRUE],
                 !.socket = s,
                 !.connecting = s,
                 !.promise[s] = "pending",
                 !.hs[s] = [pc |-> "tcp", job |-> 0],
                 !.jobs[j].status = "waiting",
                 !.jobs[j].att = s,
                 !.jobs[j].issuedIn = s,
                 !.waiters = Append(S.waiters, j)]

\* faulty variant: a caller that finds a live socket opens another one all the same
ensureConnectedAlways(S, j) ==
  IF S.socket # 0 /\ ~Destroyed(S, S.socket) /\ S.nSockets >= MaxSockets
  THEN WriteCommand(S, j)
  ELSE IF S.connecting # 0 /\ (S.socket = 0 \/ Destroyed(S, S.socket))
  THEN [S EXCEPT !.jobs[j].status = "waiting",
                 !.jobs[j].att = S.connecting,
                 !.waiters = Append(S.waiters, j)]
  ELSE LET s == S.nSockets + 1 IN
       [S EXCEPT !.nSockets = s,
                 !.sock[s] = [NoSocket EXCEPT !.st = "connecting", !.listeners = TRUE],
                 !.socket = s,
                 !.connecting = s,
                 !.promise[s] = "pending",
                 !.hs[s] = [pc |-> "tcp", job |-> 0],
                 !.jobs[j].status = "waiting",
                 !.jobs[j].att = s,
                 !.jobs[j].issuedIn = s,
                 !.waiters = Append(S.waiters, j)]

ensureConnected(S, j) ==
  IF S.socket # 0 /\ ~Destroyed(S, S.socket) THEN WriteCommand(S, j)
  ELSE IF S.connecting # 0
  THEN [S EXCEPT !.jobs[j].status = "waiting",
                 !.jobs[j].att = S.connecting,
                 !.waiters = Append(S.waiters, j)]
  ELSE LET s == S.nSockets + 1 IN
       [S EXCEPT !.nSockets = s,
                 !.sock[s] = [NoSocket EXCEPT !.st = "connecting", !.listeners = TRUE],
                 !.socket = s,
                 !.connecting = s,
                 !.promise[s] = "pending",
                 !.hs[s] = [pc |-> "tcp", job |-> 0],
                 !.jobs[j].status = "waiting",
                 !.jobs[j].att = s,
                 !.jobs[j].issuedIn = s,
                 !.waiters = Append(S.waiters, j)]

\* rawCommand(parts): a new job, then ensureConnected
rawCommand(S, kind, parts) ==
  LET j == S.nJobs + 1
      inFlight == IF S.connecting # 0 /\ S.promise[S.connecting] = "pending"
                  THEN S.connecting ELSE 0
      S1 == [S EXCEPT !.nJobs = j,
                      !.jobs[j] = [NoJob EXCEPT !.kind = kind, !.parts = parts,
                                                !.issuedIn = inFlight]]
  IN ensureConnected(S1, j)

\* ------------------------------------------------------------------------
\* Scheduling.  Socket events (connect, data, error, close) are separate
\* turns of the event loop; the promise continuations a turn makes runnable
\* all run before the next socket event.  The connect handler resumes two
\* continuations after its awaited job settles, a caller of get/set/incr/...
\* resumes three or more after its own job settles, so the handshake step
\* comes before any command a resumed caller issues.  A destroyed socket
\* reports "error" in the same turn and "close" in a later one.
\* ------------------------------------------------------------------------
Settled(j) == jobs[j].status \in {"resolved", "rejected"}

\* the connect handler of attempt a is suspended on a job that has settled
HsReady(a) == hs[a].pc \in {"auth", "select"} /\ Settled(hs[a].job)

Releasable == {i \in 1..Len(waiters) : promise[jobs[waiters[i]].att] # "pending"}

NoHandshakeStep == \A a \in SocketIds : ~HsReady(a)
Idle == NoHandshakeStep /\ Releasable = {}

NumCmds == Cardinality({j \in JobIds : jobs[j].kind = "CMD"})


\* ------------------------------------------------------------------------
\* The store's side of a connection: one reply frame per command received,
\* in order, carrying the ordinal of the command it answers
\* ------------------------------------------------------------------------
Tag(j) == IntToString(j)

ReplyFrame(j, ok) ==
  IF ~ok THEN <<MINUS>> \o Tag(j) \o <<CR, LF>>
  ELSE IF jobs[j].kind = "CMD" THEN <<COLON>> \o Tag(j) \o <<CR, LF>>
  ELSE <<PLUS>> \o Tag(j) \o <<CR, LF>>

\* ------------------------------------------------------------------------
\* Rate limiter: configuration, the store's counters, requests
\* ------------------------------------------------------------------------
RateLimit == 3
Window == 2
MaxReqs == 2
MaxTime == Window
MaxCount == RateLimit + 1

\* the requests in progress at one time; a request that has left the loop
\* makes room for the next
ReqIds == 1..MaxReqs
RateKeys == {"ip", "id"}

\* the rule lists the builders produce: the address rule, then the rule of
\* the identifier when one was given
RuleLists == {<<"ip">>, <<"ip", "id">>}

Rule(k) ==
  [key |-> k,
   limit |-> IF k = "ip" THEN RateLimit ELSE RateLimit - 1,
   windowSeconds |-> Window]

\* env.redisUrl: the empty string, or a string with the components new URL
\* gives it (parses = FALSE when new URL throws)
StrRedis == <<114, 101, 100, 105, 115, 58>>
StrRediss == <<114, 101, 100, 105, 115, 115, 58>>
StrHost == <<104>>
StrSlash == <<47>>
NoUrl ==
  [empty |-> TRUE, parses |-> FALSE, protocol |-> <<>>, hostname |-> <<>>, port |-> <<>>,
   username |-> <<>>, password |-> <<>>, pathname |-> <<>>]
GoodUrl ==
  [NoUrl EXCEPT !.empty = FALSE, !.parses = TRUE, !.protocol = StrRedis,
                !.hostname = StrHost, !.pathname = StrSlash \o <<ZERO>>]
RedisUrls ==
  {NoUrl,
   [NoUrl EXCEPT !.empty = FALSE],
   GoodUrl,
   [GoodUrl EXCEPT !.protocol = StrRediss],
   [GoodUrl EXCEPT !.hostname = <<>>],
   [GoodUrl EXCEPT !.port = <<ZERO>>]}

Thrown == [ok |-> FALSE, host |-> <<>>, port |-> 0, username |-> NoString,
           password |-> NoString, db |-> NoDb]

parseRedisUrl(u) ==
  IF ~u.parses THEN Thrown
  ELSE IF u.protocol # StrRedis THEN Thrown
  ELSE LET port == IF u.port # <<>> THEN ToNumber(u.port) ELSE [fin |-> TRUE, n |-> 6379]
           p == IF u.pathname # <<>> /\ Head(u.pathname) = Head(StrSlash)
                THEN Tail(u.pathname) ELSE u.pathname
           n == ToNumber(p)
       IN
       IF u.hostname = <<>> THEN Thrown
       ELSE IF ~port.fin \/ port.n <= 0 THEN Thrown
       ELSE [ok |-> TRUE, host |-> u.hostname, port |-> port.n,
             username |-> IF u.password # <<>> THEN u.username ELSE NoString,
             password |-> IF u.password # <<>> THEN u.password ELSE u.username,
             db |-> IF p # <<>> /\ n.fin /\ n.n >= 0 THEN n.n ELSE NoDb]

\* getRedisOptional: TRUE when it returns a client, FALSE when it returns
\* null; the cached client is the one the same URL gives again
getRedisOptional(u) == ~u.empty /\ parseRedisUrl(u).ok

\* A counter of the store.  val = 0: the key does not exist.  ttl: seconds
\* to live, -1 without expiry.  History: nExp counts the EXPIREs applied
\* since the key was created, solo tells that no two checks on the key have
\* overlapped since then
NoKey == [val |-> 0, ttl |-> 0 - 2, nExp |-> 0, solo |-> TRUE]

\* faulty variant: INCR adds two
StoreIncrTwice(st, k, alone) ==
  [st EXCEPT ![k] =
     IF @.val = 0
     THEN [@ EXCEPT !.val = 2, !.ttl = 0 - 1, !.nExp = 0, !.solo = alone]
     ELSE [@ EXCEPT !.val = @ + 2, !.solo = @ /\ alone]]

\* faulty variant: a counter at the limit of its rule is not incremented
StoreIncrCapped(st, k, alone) ==
  [st EXCEPT ![k] =
     IF @.val = 0
     THEN [@ EXCEPT !.val = 1, !.ttl = 0 - 1, !.nExp = 0, !.solo = alone]
     ELSE IF @.val >= RateLimit THEN [@ EXCEPT !.solo = @ /\ alone]
     ELSE [@ EXCEPT !.val = @ + 1, !.solo = @ /\ alone]]

\* INCR key
StoreIncr(st, k, alone) ==
  [st EXCEPT ![k] =
     IF @.val = 0
     THEN [@ EXCEPT !.val = 1, !.ttl = 0 - 1, !.nExp = 0, !.solo = alone]
     ELSE [@ EXCEPT !.val = @ + 1, !.solo = @ /\ alone]]

\* EXPIRE key seconds
StoreExpire(st, k, seconds) ==
  IF st[k].val = 0 THEN st
  ELSE [st EXCEPT ![k].ttl = seconds, ![k].nExp = @ + 1]

\* TTL key
StoreTtl(st, k) == IF st[k].val = 0 THEN 0 - 2 ELSE st[k].ttl

\* one second passes
StoreTick(st) ==
  [k \in RateKeys |->
     IF st[k].val > 0 /\ st[k].ttl = 1 THEN NoKey
     ELSE IF st[k].ttl > 1 THEN [st[k] EXCEPT !.ttl = @ - 1]
     ELSE st[k]]

\* RedisLite.incr, expire, ttl: the reply value as the caller gets it
incr(v) == IF v.t = "number" THEN v.n ELSE 0
expire(v) == IF v.t = "number" THEN v.n ELSE 0
ttl(v) == IF v.t = "number" THEN v.n ELSE 0 - 2

\* the outcomes of a command: answered, carried out with the reply lost with
\* the connection, not carried out
Outcomes == {"ok", "lost", "fail"}

\* A request: pc is its position (idle, call: about to call
\* enforceRateLimitOrRespond for rule i, expire / ttl / rearm: before the
\* command of line 23 / 26 / 28, rejected / passed / thrown: out of the
\* loop), count and ttl the locals of incrWithExpiry, results the
\* RateLimitResult of each rule checked so far
NoHeaders == [set |-> FALSE, limit |-> 0, remaining |-> 0, reset |-> 0]

NoRequest ==
  [pc |-> "idle", rules |-> <<>>, i |-> 0, count |-> 0, ttl |-> 0,
   results |-> <<>>, headers |-> NoHeaders]

\* checkRateLimit returning null; why tells the history how the check ended:
\* the store disabled, a command threw, or with a result after the TTL query
\* ("none") or after setting the time to live again ("rearmed")
NoResult(why) ==
  [null |-> TRUE, ok |-> FALSE, count |-> 0, remaining |-> 0, resetSeconds |-> 0,
   why |-> why]

MathMax(a, b) == IF a >= b THEN a ELSE b

\* faulty variant: remaining is the bare difference
checkRateLimitNoFloor(rule, r) ==
  [null |-> FALSE, ok |-> r.count <= rule.limit, count |-> r.count,
   remaining |-> rule.limit - r.count, resetSeconds |-> r.ttl,
   why |-> r.why]

\* faulty variant: the limit itself is refused
checkRateLimitStrict(rule, r) ==
  [null |-> FALSE, ok |-> r.count < rule.limit, count |-> r.count,
   remaining |-> MathMax(0, rule.limit - r.count), resetSeconds |-> r.ttl,
   why |-> r.why]

\* checkRateLimit on a result {count, ttl} of incrWithExpiry
checkRateLimit(rule, r) ==
  [null |-> FALSE, ok |-> r.count <= rule.limit, count |-> r.count,
   remaining |-> MathMax(0, rule.limit - r.count), resetSeconds |-> r.ttl,
   why |-> r.why]

\* enforceRateLimitOrRespond from line 57 on, with exposeHeaders as both
\* callers pass it: the response headers and the value returned
enforceRateLimitOrRespond(q, result) ==
  IF result.null THEN [headers |-> q.headers, ret |-> TRUE]
  ELSE [headers |-> [set |-> TRUE, limit |-> Rule(q.rules[q.i]).limit,
                     remaining |-> result.remaining, reset |-> result.resetSeconds],
        ret |-> result.ok]

\* faulty variant: a refusal leaves the loop and not the handler
RuleLoopBreak(q, ret) ==
  IF ~ret THEN [q EXCEPT !.pc = "passed"]
  ELSE IF q.i < Len(q.rules) THEN [q EXCEPT !.i = @ + 1, !.pc = "call"]
  ELSE [q EXCEPT !.pc = "passed"]

\* faulty variant: the loop goes on to the next rule after a refusal
RuleLoopNoReturn(q, ret) ==
  IF q.i < Len(q.rules) THEN [q EXCEPT !.i = @ + 1, !.pc = "call"]
  ELSE [q EXCEPT !.pc = IF ret THEN "passed" ELSE "rejected"]

\* the loop over the rules in the handlers: return on a refusal, otherwise
\* the next rule
RuleLoop(q, ret) ==
  IF ~ret THEN [q EXCEPT !.pc = "rejected"]
  ELSE IF q.i < Len(q.rules) THEN [q EXCEPT !.i = @ + 1, !.pc = "call"]
  ELSE [q EXCEPT !.pc = "passed"]

\* the check of rule i of request q has returned result
Returned(q, result) ==
  LET e == enforceRateLimitOrRespond(q, result) IN
  RuleLoop([q EXCEPT !.results = Append(@, result), !.headers = e.headers,
                     !.count = 0, !.ttl = 0],
           e.ret)

\* faulty variant: the exception of a command leaves incrWithExpiry
ThrewUncaught(q) == [q EXCEPT !.pc = "thrown"]

\* a command of incrWithExpiry threw: the catch returns null
Threw(q) == Returned(q, NoResult("threw"))

\* faulty variant: the first EXPIRE is sent after every INCR
AfterIncrAlways(count) == "expire"

\* line 22
AfterIncr(count) == IF count = 1 THEN "expire" ELSE "ttl"

\* faulty variant: the time to live is set again by every check
AfterTtlAlways(t) == "rearm"

\* faulty variant: a counter without time to live is left as it is
AfterTtlNoReArm(t) == "return"

\* line 27
AfterTtl(t) == IF t < 0 THEN "rearm" ELSE "return"

\* request p is between the INCR and the return of a check on key k
MidCheck(p, k) ==
  /\ reqs[p].pc \in {"expire", "ttl", "rearm"}
  /\ reqs[p].rules[reqs[p].i] = k

KeyOf(r) == reqs[r].rules[reqs[r].i]

\* request r is in the rate-limit loop of its handler
InLoop(r) == reqs[r].pc \in {"call", "expire", "ttl", "rearm"}

\* ------------------------------------------------------------------------
\* Rate limiter: actions
\* ------------------------------------------------------------------------
\* a request reaches the rate-limit loop of its handler with its rule list
RateStart(r, rules) ==
  /\ ~InLoop(r)
  /\ \A p \in 1..(r - 1) : InLoop(p)
  /\ reqs' = [reqs EXCEPT ![r] = [NoRequest EXCEPT !.pc = "call", !.rules = rules, !.i = 1]]
  /\ UNCHANGED <<url, store, now>>
  /\ UNCHANGED clientVars

\* incrWithExpiry line 18: no client
RateDisabled(r) ==
  /\ reqs[r].pc = "call"
  /\ ~getRedisOptional(url)
  /\ reqs' = [reqs EXCEPT ![r] = Returned(@, NoResult("disabled"))]
  /\ UNCHANGED <<url, store, now>>
  /\ UNCHANGED clientVars

\* line 21
Incr(r, out) ==
  /\ reqs[r].pc = "call"
  /\ getRedisOptional(url)
  /\ store[KeyOf(r)].val < MaxCount
  /\ LET q == reqs[r]
         k == KeyOf(r)
         alone == ~\E p \in ReqIds \ {r} : MidCheck(p, k)
         st == IF out = "fail" THEN store ELSE StoreIncr(store, k, alone)
         count == incr(JsNumber(st[k].val))
     IN /\ store' = st
        /\ reqs' = [reqs EXCEPT ![r] =
                      IF out = "ok"
                      THEN [q EXCEPT !.count = count, !.pc = AfterIncr(count)]
                      ELSE Threw(q)]
  /\ UNCHANGED <<url, now>>
  /\ UNCHANGED clientVars

\* line 23
ExpireFirst(r, out) ==
  /\ reqs[r].pc = "expire"
  /\ LET q == reqs[r]
         k == KeyOf(r)
     IN /\ store' = IF out = "fail" THEN store
                    ELSE StoreExpire(store, k, Rule(k).windowSeconds)
        /\ reqs' = [reqs EXCEPT ![r] =
                      IF out = "ok" THEN [q EXCEPT !.pc = "ttl"]
                      ELSE Threw(q)]
  /\ UNCHANGED <<url, now>>
  /\ UNCHANGED clientVars

\* line 26, and the return of line 32 when the time to live is not negative
Ttl(r, out) ==
  /\ reqs[r].pc = "ttl"
  /\ LET q == reqs[r]
         k == KeyOf(r)
         t == ttl(JsNumber(StoreTtl(store, k)))
     IN reqs' = [reqs EXCEPT ![r] =
                   IF out # "ok" THEN Threw(q)
                   ELSE IF AfterTtl(t) = "rearm" THEN [q EXCEPT !.ttl = t, !.pc = "rearm"]
                   ELSE Returned(q, checkRateLimit(Rule(k), [count |-> q.count, ttl |-> t,
                                                             why |-> "none"]))]
  /\ UNCHANGED <<url, store, now>>
  /\ UNCHANGED clientVars

\* lines 28 to 32
ReArm(r, out) ==
  /\ reqs[r].pc = "rearm"
  /\ LET q == reqs[r]
         k == KeyOf(r)
         w == Rule(k).windowSeconds
     IN /\ store' = IF out = "fail" THEN store ELSE StoreExpire(store, k, w)
        /\ reqs' = [reqs EXCEPT ![r] =
                      IF out # "ok" THEN Threw(q)
                      ELSE Returned(q, checkRateLimit(Rule(k), [count |-> q.count, ttl |-> w,
                                                                why |-> "rearmed"]))]
  /\ UNCHANGED <<url, now>>
  /\ UNCHANGED clientVars

\* a second passes at the store
Tick ==
  /\ now < MaxTime
  /\ now' = now + 1
  /\ store' = StoreTick(store)
  /\ UNCHANGED <<url, reqs>>
  /\ UNCHANGED clientVars

\* The fixed windows as a clock beside the store counts them: n INCRs have
\* fallen in the current window of the key, which ends at time end (-1 until
\* an EXPIRE has started it); prev is the number of INCRs of the window
\* before
NoWindow == [n |-> 0, end |-> 0 - 1, prev |-> 0]

\* the counter of key k is incremented in this step
Incremented(k) == store'[k].val > store[k].val

\* the time to live of key k is set in this step
Armed(k) == store'[k].nExp > store[k].nExp

\* the windows after this step: an INCR at or after the end of the window
\* opens the next one, the first EXPIRE of a window fixes its end
Observed ==
  [k \in RateKeys |->
     LET w == win[k]
         elapsed == w.end # 0 - 1 /\ now >= w.end
     IN IF Incremented(k)
        THEN IF elapsed THEN [n |-> 1, end |-> 0 - 1, prev |-> w.n]
             ELSE [w EXCEPT !.n = @ + 1]
        ELSE IF Armed(k) /\ w.end = 0 - 1 THEN [w EXCEPT !.end = now + store'[k].ttl]
        ELSE w]

\* The lifetimes of the counter of a key, from its creation to its expiry:
\* epoch of them have ended, the INCR of the check request r is making fell
\* in lifetime of[r], and allowed[e] checks whose INCR fell in lifetime e
\* have returned allowed
NoLife ==
  [epoch |-> 0, of |-> [r \in ReqIds |-> 0], allowed |-> [e \in 0..MaxTime |-> 0]]

\* the lifetimes after this step
Lived ==
  [k \in RateKeys |->
     LET l == life[k]
         incs == {r \in ReqIds : /\ reqs[r].pc = "call"
                                  /\ reqs'[r] # reqs[r]
                                  /\ reqs[r].rules[reqs[r].i] = k
                                  /\ store'[k].val > store[k].val}
         rets == {r \in ReqIds : /\ reqs[r].pc \in {"ttl", "rearm"}
                                  /\ reqs[r].rules[reqs[r].i] = k
                                  /\ Len(reqs'[r].results) = Len(reqs[r].results) + 1
                                  /\ reqs'[r].results[Len(reqs'[r].results)].ok}
     IN [epoch |-> IF store[k].val > 0 /\ store'[k].val = 0 THEN l.epoch + 1 ELSE l.epoch,
         of |-> [r \in ReqIds |-> IF r \in incs THEN l.epoch ELSE l.of[r]],
         allowed |-> [e \in 0..MaxTime |->
                        l.allowed[e] + Cardinality({r \in rets : l.of[r] = e})]]]

\* no request, no counter: the state of the limiter while the client alone
\* is studied
RateOff ==
  /\ url = GoodUrl
  /\ store = [k \in RateKeys |-> NoKey]
  /\ now = 0
  /\ reqs = [r \in ReqIds |-> NoRequest]
  /\ win = [k \in RateKeys |-> NoWindow]
  /\ life = [k \in RateKeys |-> NoLife]

\* ------------------------------------------------------------------------
\* Captcha: the code record and the mismatch counter of one token at the
\* store, the issuing handler and the verification in the query handler
\* ------------------------------------------------------------------------
CaptchaSeconds == 2
MaxMismatches == 6
MaxFails == 5

StrCode == <<ZERO + 1>>
StrWrong == <<ZERO + 2>>
Guesses == {NoString, StrCode, StrWrong}

\* The records of the token.  code: the key captcha:id exists, with codeTtl
\* seconds to live; fails: the value of captcha_fail:id, 0 when the key does
\* not exist, with failsTtl seconds to live (-1 without expiry)
NoToken == [code |-> FALSE, codeTtl |-> 0, fails |-> 0, failsTtl |-> 0]

\* SET captcha:id code EX seconds
TokSet(t, seconds) == [t EXCEPT !.code = TRUE, !.codeTtl = seconds]

\* GET captcha:id
TokGet(t) == IF t.code THEN JsString(StrCode) ELSE JsNull

\* INCR captcha_fail:id
TokIncr(t) ==
  IF t.fails = 0 THEN [t EXCEPT !.fails = 1, !.failsTtl = 0 - 1]
  ELSE [t EXCEPT !.fails = @ + 1]

\* EXPIRE captcha_fail:id seconds
TokExpire(t, seconds) == IF t.fails = 0 THEN t ELSE [t EXCEPT !.failsTtl = seconds]

\* faulty variant: DEL captcha_fail:id alone
TokDelCounterOnly(t) == [t EXCEPT !.fails = 0, !.failsTtl = 0]

\* DEL captcha:id captcha_fail:id
TokDel(t) == [t EXCEPT !.code = FALSE, !.codeTtl = 0, !.fails = 0, !.failsTtl = 0]

\* one second passes
TokTick(t) ==
  LET c == IF t.code /\ t.codeTtl = 1 THEN [t EXCEPT !.code = FALSE, !.codeTtl = 0]
           ELSE IF t.code THEN [t EXCEPT !.codeTtl = @ - 1]
           ELSE t
  IN IF c.fails > 0 /\ c.failsTtl = 1 THEN [c EXCEPT !.fails = 0, !.failsTtl = 0]
     ELSE IF c.fails > 0 /\ c.failsTtl > 1 THEN [c EXCEPT !.failsTtl = @ - 1]
     ELSE c

\* RedisLite.get: the reply value as the caller gets it
get(v) == IF v.t = "string" THEN v ELSE JsNull

\* A verification: the cookies and the guess of the request, the locals of
\* the handler, its position (idle, get / incr / expire / del_lock / del_ok:
\* before the command of line 70 / 79 / 80 / 83 / 93, done), the outcome it
\* answered with and the cookie its response clears.  History: threw, the
\* position at which a command of it failed
NoVerify ==
  [pc |-> "idle", captchaId |-> FALSE, cookieCode |-> NoString, guess |-> NoString,
   fails |-> 0, outcome |-> "none", setCookie |-> "none", threw |-> "none"]

Respond(q, outcome, cookie) ==
  [q EXCEPT !.pc = "done", !.outcome = outcome, !.setCookie = cookie]

\* faulty variant: a failing command lets the request through
CaughtGranted(q) == Respond(q, "ok", "rise_captcha_id")

\* the catch of lines 95 to 98
Caught(q) == Respond(q, "busy", "rise_captcha_id")

\* lines 101 to 107: the cookie-only comparison
VerifyCookie(q) ==
  IF q.cookieCode = NoString \/ q.guess = NoString \/ q.cookieCode # q.guess
  THEN Respond(q, "mismatch_cookie", "rise_captcha")
  ELSE Respond(q, "ok", "rise_captcha")

\* lines 63 to 67
VerifyEntry(q) ==
  IF ~q.captchaId \/ q.guess = NoString THEN Respond(q, "missing", "none")
  ELSE [q EXCEPT !.pc = "get"]

\* faulty variant: the record is kept after the ceiling is reached
AfterFailsNoLock(q, fails) == Respond([q EXCEPT !.fails = fails], "mismatch", "none")

\* faulty variant: a mismatch clears the cookie of the token
AfterFailsCleared(q, fails) ==
  IF fails >= MaxFails THEN [q EXCEPT !.fails = fails, !.pc = "del_lock"]
  ELSE Respond([q EXCEPT !.fails = fails], "mismatch", "rise_captcha_id")

\* lines 82 to 90, the counter being fails
AfterFails(q, fails) ==
  IF fails >= MaxFails THEN [q EXCEPT !.fails = fails, !.pc = "del_lock"]
  ELSE Respond([q EXCEPT !.fails = fails], "mismatch", "none")

\* verification r is between its first command and its response
Verifying(r) == vreqs[r].pc \in {"get", "incr", "expire", "del_lock", "del_ok"}

tokenVars == <<tok, vreqs, issued, tally>>
rateOnly == <<store, reqs, win, life>>

\* ------------------------------------------------------------------------
\* Captcha: actions
\* ------------------------------------------------------------------------
\* captcha.ts lines 49 to 63: the code is stored under a fresh id and the id
\* put in a cookie, or the code itself is put in a cookie
IssueCaptcha(out) ==
  /\ issued = "none"
  /\ issued' = IF getRedisOptional(url) /\ out = "ok" THEN "id" ELSE "code"
  /\ tok' = IF getRedisOptional(url) /\ out # "fail" THEN TokSet(tok, CaptchaSeconds) ELSE tok
  /\ UNCHANGED <<vreqs, url, now>>
  /\ UNCHANGED rateOnly
  /\ UNCHANGED clientVars

\* lines 61 to 67, or 61 and 100 to 107, for a request that carries the
\* cookie of the issuance
VerifyBegin(r, guess) ==
  /\ issued # "none"
  /\ tok.fails < MaxMismatches
  /\ LET q == [NoVerify EXCEPT !.captchaId = (issued = "id"),
                               !.cookieCode = IF issued = "code" THEN StrCode ELSE NoString,
                               !.guess = guess]
     IN vreqs' = [vreqs EXCEPT ![r] = IF getRedisOptional(url) THEN VerifyEntry(q)
                                      ELSE VerifyCookie(q)]
  /\ tok' = tok
  /\ UNCHANGED <<issued, url, now>>
  /\ UNCHANGED clientVars

\* a query request with the cookie of the issuance reaches line 61
VerifyStart(r, guess) ==
  /\ ~Verifying(r)
  /\ \A p \in 1..(r - 1) : Verifying(p)
  /\ VerifyBegin(r, guess)
  /\ UNCHANGED rateOnly

\* lines 70 to 77
VerifyGet(r, out) ==
  /\ vreqs[r].pc = "get"
  /\ LET q == vreqs[r]
         code == get(TokGet(tok))
     IN IF out # "ok" THEN /\ vreqs' = [vreqs EXCEPT ![r] = Caught([q EXCEPT !.threw = q.pc])]
                           /\ tok' = tok
        ELSE IF code = JsNull
        THEN /\ vreqs' = [vreqs EXCEPT ![r] = Respond(q, "expired", "rise_captcha_id")]
             /\ tok' = tok
        ELSE IF code.s # q.guess
        THEN /\ vreqs' = [vreqs EXCEPT ![r].pc = "incr"]
             /\ tok' = tok
        ELSE /\ vreqs' = [vreqs EXCEPT ![r].pc = "del_ok"]
             /\ tok' = tok
  /\ UNCHANGED <<issued, url, now>>
  /\ UNCHANGED rateOnly
  /\ UNCHANGED clientVars

\* line 79, and lines 82 to 90 when the counter is not 1
VerifyIncr(r, out) ==
  /\ vreqs[r].pc = "incr"
  /\ LET q == vreqs[r]
         t == IF out = "fail" THEN tok ELSE TokIncr(tok)
         fails == incr(JsNumber(t.fails))
     IN /\ tok' = t
        /\ vreqs' = [vreqs EXCEPT ![r] =
                       IF out # "ok" THEN Caught([q EXCEPT !.threw = q.pc])
                       ELSE IF fails = 1 THEN [q EXCEPT !.fails = fails, !.pc = "expire"]
                       ELSE AfterFails(q, fails)]
  /\ UNCHANGED <<issued, url, now>>
  /\ UNCHANGED rateOnly
  /\ UNCHANGED clientVars

\* line 80, and lines 82 to 90
VerifyExpire(r, out) ==
  /\ vreqs[r].pc = "expire"
  /\ LET q == vreqs[r] IN
     /\ tok' = IF out = "fail" THEN tok ELSE TokExpire(tok, CaptchaSeconds)
     /\ vreqs' = [vreqs EXCEPT ![r] = IF out # "ok" THEN Caught([q EXCEPT !.threw = q.pc]) ELSE AfterFails(q, q.fails)]
  /\ UNCHANGED <<issued, url, now>>
  /\ UNCHANGED rateOnly
  /\ UNCHANGED clientVars

\* lines 83 to 86
VerifyDelLock(r, out) ==
  /\ vreqs[r].pc = "del_lock"
  /\ LET q == vreqs[r] IN
     /\ tok' = IF out = "fail" THEN tok ELSE TokDel(tok)
     /\ vreqs' = [vreqs EXCEPT ![r] = IF out # "ok" THEN Caught([q EXCEPT !.threw = q.pc])
                                      ELSE Respond(q, "locked", "rise_captcha_id")]
  /\ UNCHANGED <<issued, url, now>>
  /\ UNCHANGED rateOnly
  /\ UNCHANGED clientVars

\* lines 93 and 94; the request goes on to the employee lookup
VerifyDelOk(r, out) ==
  /\ vreqs[r].pc = "del_ok"
  /\ LET q == vreqs[r] IN
        /\ tok' = IF out = "fail" THEN tok ELSE TokDel(tok)
        /\ vreqs' = [vreqs EXCEPT ![r] = IF out # "ok" THEN Caught([q EXCEPT !.threw = q.pc])
                                         ELSE Respond(q, "ok", "rise_captcha_id")]
  /\ UNCHANGED <<issued, url, now>>
  /\ UNCHANGED rateOnly
  /\ UNCHANGED clientVars

\* a second passes at the store while a record of the token has time to live
TokenTick ==
  /\ tok.code \/ (tok.fails > 0 /\ tok.failsTtl > 0)
  /\ tok' = TokTick(tok)
  /\ UNCHANGED <<vreqs, issued, url, now>>
  /\ UNCHANGED rateOnly
  /\ UNCHANGED clientVars

\* History of the token: compared, the guesses compared with the stored
\* code (line 77 reached), wrongs, those of them that differed from it,
\* oks, the verifications answered ok by the store branch, and locks, those
\* answered lockout
NoTally == [compared |-> 0, wrongs |-> 0, oks |-> 0, locks |-> 0]

Tallied ==
  [compared |-> tally.compared +
                  Cardinality({r \in ReqIds : vreqs[r].pc = "get" /\ vreqs'[r].pc \in {"incr", "del_ok"}}),
   wrongs |-> tally.wrongs +
                Cardinality({r \in ReqIds : vreqs[r].pc = "get" /\ vreqs'[r].pc = "incr"}),
   oks |-> tally.oks +
             Cardinality({r \in ReqIds : vreqs[r].pc = "del_ok" /\ vreqs'[r].outcome = "ok"}),
   locks |-> tally.locks +
               Cardinality({r \in ReqIds : vreqs[r].pc = "del_lock" /\ vreqs'[r].outcome = "locked"})]

\* no captcha issued, no verification: the state of the captcha while other
\* parts are studied
TokenOff ==
  /\ tok = NoToken
  /\ vreqs = [r \in ReqIds |-> NoVerify]
  /\ issued = "none"
  /\ tally = NoTally

\* ------------------------------------------------------------------------
\* Initial state: a constructed client, nothing connected
\* ------------------------------------------------------------------------
InitClient ==
  /\ socket = 0
  /\ buffer = <<>>
  /\ pending = <<>>
  /\ connecting = 0
  /\ sock = [s \in SocketIds |-> NoSocket]
  /\ hs = [s \in SocketIds |-> NoHandshake]
  /\ promise = [s \in SocketIds |-> "none"]
  /\ waiters = <<>>
  /\ jobs = [j \in JobIds |-> NoJob]
  /\ nJobs = 0
  /\ nSockets = 0
  /\ bufSrc = <<>>

Init ==
  /\ info \in ConnInfos
  /\ InitClient
  /\ stream = <<>>
  /\ RateOff
  /\ TokenOff

\* ------------------------------------------------------------------------
\* Actions
\* ------------------------------------------------------------------------
\* A caller invokes get/set/del/incr/expire/ttl, i.e. rawCommand
SendCommand ==
  /\ NoHandshakeStep
  /\ NumCmds < MaxCmds
  /\ CanEnsure(Cur)
  /\ Becomes(rawCommand(Cur, "CMD", <<StrGET, StrKey>>))

\* A caller suspended in ensureConnected resumes once the promise it awaits
\* has settled: it writes its command, or its rawCommand throws
ResumeWaiter ==
  /\ NoHandshakeStep
  /\ Releasable # {}
  /\ LET i == CHOOSE k \in Releasable : \A m \in Releasable : k <= m
         j == waiters[i]
         S1 == [Cur EXCEPT !.waiters = SubSeq(waiters, 1, i - 1) \o SubSeq(waiters, i + 1, Len(waiters))]
     IN IF promise[jobs[j].att] = "resolved"
        THEN Becomes(WriteCommand(S1, j))
        ELSE Becomes(JobReject(S1, j, ConnectionClosed))

\* the body of the "connect" handler from its start, or from the await it
\* was suspended on: AUTH, then SELECT, then resolve()
AuthParts ==
  IF info.username # NoString THEN <<StrAUTH, info.username, info.password>>
  ELSE <<StrAUTH, info.password>>

\* faulty variant: resolve() without SELECT
HandshakeFromNoSelect(S, a, pc) ==
  IF pc = "tcp" /\ info.password # NoString
  THEN LET S1 == rawCommand(S, "AUTH", AuthParts) IN
       [S1 EXCEPT !.hs[a] = [pc |-> "auth", job |-> S1.nJobs]]
  ELSE ConnResolve([S EXCEPT !.hs[a] = [pc |-> "done", job |-> 0]], a)

HandshakeFrom(S, a, pc) ==
  IF pc = "tcp" /\ info.password # NoString
  THEN LET S1 == rawCommand(S, "AUTH", AuthParts) IN
       [S1 EXCEPT !.hs[a] = [pc |-> "auth", job |-> S1.nJobs]]
  ELSE IF pc \in {"tcp", "auth"} /\ info.db # NoDb
  THEN LET S1 == rawCommand(S, "SELECT", <<StrSELECT, IntToString(info.db)>>) IN
       [S1 EXCEPT !.hs[a] = [pc |-> "select", job |-> S1.nJobs]]
  ELSE ConnResolve([S EXCEPT !.hs[a] = [pc |-> "done", job |-> 0]], a)

\* the catch block of the connect handler
HandshakeCatch(S, a, e) ==
  ConnReject([onCloseOrError(S, e) EXCEPT !.hs[a] = [pc |-> "failed", job |-> 0]], a)

\* The TCP connection of socket s is established: "connect" is emitted
TcpConnect(s) ==
  /\ Idle
  /\ sock[s].st = "connecting"
  /\ LET S1 == [Cur EXCEPT !.sock[s].st = "open"] IN
     IF sock[s].listeners THEN Becomes(HandshakeFrom(S1, s, "tcp")) ELSE Becomes(S1)

\* The connect handler of attempt a resumes after its awaited command has
\* settled: next handshake step, or the catch block
HandshakeContinue(a) ==
  /\ HsReady(a)
  /\ IF jobs[hs[a].job].status = "resolved"
     THEN Becomes(HandshakeFrom(Cur, a, hs[a].pc))
     ELSE Becomes(HandshakeCatch(Cur, a, jobs[hs[a].job].value))

\* The store answers the next unanswered command received on socket s
ServerReply(s, ok) ==
  /\ sock[s].st = "open"
  /\ sock[s].listeners
  /\ sock[s].srv < Len(sock[s].out)
  /\ LET j == sock[s].out[sock[s].srv + 1] IN
     sock' = [sock EXCEPT ![s].srv = @ + 1, ![s].wire = @ \o ReplyFrame(j, ok)]
  /\ UNCHANGED <<info, socket, buffer, pending, connecting, hs, promise, waiters, jobs,
                 nJobs, nSockets, bufSrc, stream>>
  /\ UNCHANGED rateVars
  /\ UNCHANGED <<tok, vreqs, issued, tally>>

\* Some of the bytes in flight on socket s arrive: "data" is emitted with a
\* chunk of any length
DataEvent(s) ==
  /\ Idle
  /\ sock[s].st = "open"
  /\ sock[s].listeners
  /\ \E n \in 1..Len(sock[s].wire) :
       LET data == SubSeq(sock[s].wire, 1, n)
           S1 == [Cur EXCEPT !.sock[s].wire = SubSeq(@, n + 1, Len(@))]
       IN Becomes(onData(S1, data, s))

\* Socket s fails (connect refused, reset): it is destroyed and "error" is
\* emitted; bytes in flight are lost
SocketError(s) ==
  /\ Idle
  /\ sock[s].st \in {"connecting", "open"}
  /\ LET S1 == [Cur EXCEPT !.sock[s].st = "destroyed", !.sock[s].wire = <<>>,
                           !.sock[s].late = @ \/ socket \notin {0, s}] IN
     IF sock[s].listeners
     THEN Becomes(onError(S1, s, ConnectionClosed))
     ELSE Becomes(S1)

\* The store closes the connection after everything it sent was received:
\* the socket is destroyed, "close" follows later
PeerEnd(s) ==
  /\ Idle
  /\ sock[s].st = "open"
  /\ sock[s].wire = <<>>
  /\ Becomes([Cur EXCEPT !.sock[s].st = "destroyed"])

\* "close" is emitted on the destroyed socket s
CloseEvent(s) ==
  /\ Idle
  /\ sock[s].st = "destroyed"
  /\ LET S1 == [Cur EXCEPT !.sock[s].st = "closed",
                           !.sock[s].late = @ \/ socket \notin {0, s}] IN
     IF sock[s].listeners THEN Becomes(onClose(S1)) ELSE Becomes(S1)

Next ==
  \/ SendCommand
  \/ ResumeWaiter
  \/ \E s \in SocketIds : TcpConnect(s)
  \/ \E a \in SocketIds : HandshakeContinue(a)
  \/ \E s \in SocketIds, ok \in BOOLEAN : ServerReply(s, ok)
  \/ \E s \in SocketIds : DataEvent(s)
  \/ \E s \in SocketIds : SocketError(s)
  \/ \E s \in SocketIds : PeerEnd(s)
  \/ \E s \in SocketIds : CloseEvent(s)

Spec == Init /\ [][Next]_vars

\* ------------------------------------------------------------------------
\* The decoder fed with a stream of reply frames in chunks: a connected
\* client with one pending request per frame, and the whole stream in flight
\* ------------------------------------------------------------------------
CRLF == <<CR, LF>>
StrA == <<97>>

SimpleFrame(s) == <<PLUS>> \o s \o CRLF
ErrorFrame(s) == <<MINUS>> \o s \o CRLF
IntegerFrame(k) == <<COLON>> \o IntToString(k) \o CRLF
BulkFrame(b) == <<DOLLAR>> \o IntToString(Len(b)) \o CRLF \o b \o CRLF
NullBulkFrame == <<DOLLAR, MINUS, ZERO + 1>> \o CRLF
NullArrayFrame == <<STAR, MINUS, ZERO + 1>> \o CRLF

RECURSIVE Flatten(_)
Flatten(fs) == IF fs = <<>> THEN <<>> ELSE Head(fs) \o Flatten(Tail(fs))

ArrayFrame(fs) == <<STAR>> \o IntToString(Len(fs)) \o CRLF \o Flatten(fs)

ReplyFrames ==
  { SimpleFrame(StrA),
    ErrorFrame(StrA),
    IntegerFrame(12),
    IntegerFrame(0 - 2),
    NullBulkFrame,
    BulkFrame(<<>>),
    BulkFrame(CRLF),
    BulkFrame(<<195, 169>>),
    NullArrayFrame,
    ArrayFrame(<<>>),
    ArrayFrame(<<IntegerFrame(1), BulkFrame(StrA)>>),
    ArrayFrame(<<ArrayFrame(<<NullBulkFrame>>)>>) }

FrameSeqs == UNION {[1..n -> ReplyFrames] : n \in 1..MaxFrames}

\* the client after a handshake without AUTH and SELECT and n commands
\* written, with the given bytes in flight
Connected(n, bytes) ==
  [socket |-> 1,
   buffer |-> <<>>,
   pending |-> [j \in 1..n |-> j],
   connecting |-> 1,
   sock |-> [s \in SocketIds |->
               IF s = 1
               THEN [NoSocket EXCEPT !.st = "open", !.listeners = TRUE,
                                     !.out = [j \in 1..n |-> j], !.srv = n,
                                     !.wire = bytes, !.nSent = n]
               ELSE NoSocket],
   hs |-> [s \in SocketIds |-> IF s = 1 THEN [pc |-> "done", job |-> 0] ELSE NoHandshake],
   promise |-> [s \in SocketIds |-> IF s = 1 THEN "resolved" ELSE "none"],
   waiters |-> <<>>,
   jobs |-> [j \in JobIds |->
               IF j <= n
               THEN [NoJob EXCEPT !.kind = "CMD", !.parts = <<StrGET, StrKey>>,
                                  !.status = "pending", !.sock = 1,
                                  !.att = IF j = 1 THEN 1 ELSE 0,
                                  !.issuedIn = IF j = 1 THEN 1 ELSE 0,
                                  !.sendOrd = j, !.hsAt = "done"]
               ELSE NoJob],
   nJobs |-> n,
   nSockets |-> 1,
   bufSrc |-> <<>>]

Holds(S) ==
  /\ socket = S.socket
  /\ buffer = S.buffer
  /\ pending = S.pending
  /\ connecting = S.connecting
  /\ sock = S.sock
  /\ hs = S.hs
  /\ promise = S.promise
  /\ waiters = S.waiters
  /\ jobs = S.jobs
  /\ nJobs = S.nJobs
  /\ nSockets = S.nSockets
  /\ bufSrc = S.bufSrc

InitChunk ==
  /\ info = [username |-> NoString, password |-> NoString, db |-> NoDb]
  /\ \E fs \in FrameSeqs :
       /\ stream = fs
       /\ Holds(Connected(Len(fs), Flatten(fs)))
  /\ RateOff
  /\ TokenOff

NextChunk == DataEvent(1)

SpecChunk == InitChunk /\ [][NextChunk]_vars


\* ------------------------------------------------------------------------
\* Vocabulary of the properties
\* ------------------------------------------------------------------------
InPending(j) == \E i \in 1..Len(pending) : pending[i] = j
InWaiters(j) == \E i \in 1..Len(waiters) : waiters[i] = j

\* job j was completed by a decoded reply frame
ByFrame(j) == jobs[j].frameOrd # 0

\* the ordinal carried by a decoded reply
DecodedTag(v) == IF v.t = "number" THEN v.n ELSE ToNumber(v.s).n

\* the client has been told that socket s is gone, or no longer listens to it
Died(s) == sock[s].st = "closed" \/ (sock[s].st = "destroyed" /\ ~sock[s].listeners)

\* attempt a is in flight: its connecting promise has not settled
InFlight(a) == promise[a] = "pending"

\* the sockets the client holds a handle of or listens to
Owned == {s \in SocketIds : sock[s].listeners} \cup ({socket} \ {0})

\* C1: the Kth reply frame decoded on a connection completes the Kth request
\* pushed on that connection, and the value it gets is the answer to its own
\* command
FifoCorrelation ==
  \A j \in JobIds : ByFrame(j) =>
    /\ jobs[j].frameOrd = jobs[j].sendOrd
    /\ DecodedTag(jobs[j].value) = j
    /\ jobs[j].status = IF jobs[j].value.t = "error" THEN "rejected" ELSE "resolved"

\* three requests of one connection answered in order, one of them by an
\* error reply
FifoWitness ==
  \E j \in JobIds : /\ jobs[j].frameOrd = 3
                    /\ \E k \in JobIds : ByFrame(k) /\ jobs[k].sock = jobs[j].sock
                                         /\ jobs[k].status = "rejected"

\* C2: every request is completed exactly once and is in the pending queue
\* exactly while it is uncompleted
CompletedExactlyOnce ==
  /\ \A j \in JobIds :
       /\ jobs[j].done <= 1
       /\ InPending(j) <=> jobs[j].status = "pending"
       /\ jobs[j].status = "pending" => jobs[j].done = 0
       /\ jobs[j].status \in {"resolved", "rejected"} => jobs[j].done = 1
  /\ \A i, k \in 1..Len(pending) : pending[i] = pending[k] => i = k

\* a connection lost during the handshake: the close handler and then the
\* catch block of the connect handler both ran onCloseOrError, with a caller
\* request and the handshake command in the queue
ExactlyOnceWitness ==
  \E a \in SocketIds :
    /\ hs[a].pc = "failed"
    /\ sock[a].st = "closed"
    /\ \E j \in JobIds : /\ jobs[j].kind = "CMD" /\ jobs[j].sock = a
                         /\ jobs[j].status = "rejected" /\ ~ByFrame(j)

\* C3: the handler of a socket error or close rejects every queued request
\* and resets socket, buffer, queue and connecting; the next command then
\* starts an attempt on a socket that did not exist before
TeardownResets ==
  [][/\ \A s \in SocketIds :
          (sock[s].listeners /\ (SocketError(s) \/ CloseEvent(s))) =>
             /\ socket' = 0
             /\ buffer' = <<>>
             /\ pending' = <<>>
             /\ connecting' = 0
             /\ \A i \in 1..Len(pending) : jobs'[pending[i]].status = "rejected"
     /\ (socket = 0 /\ socket' # 0) => SendCommand
     /\ (SendCommand /\ socket = 0) =>
             /\ socket' = nSockets + 1
             /\ connecting' = socket'
             /\ sock[socket'].st = "none"
             /\ sock'[socket'].st = "connecting"
             /\ promise'[socket'] = "pending"]_vars

\* a request of the first connection was rejected by the loss of that
\* connection, and a command has since started the second socket
TeardownWitness ==
  /\ socket = 2
  /\ Died(1)
  /\ \E j \in JobIds : jobs[j].sock = 1 /\ jobs[j].status = "rejected" /\ ~ByFrame(j)

\* C4: once the socket of an attempt has died before its handshake was
\* complete, and the continuations that follow the event have run, the
\* attempt's promise is rejected and none of its waiters is still suspended:
\* each of them was rejected without having written its command
ConnectWaitersRejected ==
  \A a \in SocketIds :
    (Died(a) /\ hs[a].pc # "done" /\ NoHandshakeStep) =>
       /\ promise[a] = "rejected"
       /\ \A j \in JobIds :
            (jobs[j].att = a /\ Releasable = {}) =>
               /\ ~InWaiters(j)
               /\ jobs[j].status = "rejected"
               /\ jobs[j].sock = 0

\* the store closed the connection (no error) while AUTH or SELECT was
\* outstanding, and a caller that had joined the attempt was rejected
ConnectWaitersWitness ==
  \E a \in SocketIds :
    /\ sock[a].st = "closed"
    /\ hs[a].pc = "failed"
    /\ Idle
    /\ \E j \in JobIds : jobs[j].kind = "CMD" /\ jobs[j].att = a /\ jobs[j].issuedIn = a
                         /\ jobs[j].status = "rejected"
                         /\ \E k \in JobIds : k # j /\ jobs[k].kind = "CMD" /\ jobs[k].att = a

\* C5: the client never owns two sockets, and no step taken while an attempt
\* is in flight creates a socket
SingleSocket ==
  /\ [](Cardinality(Owned) <= 1)
  /\ [][(connecting # 0 /\ InFlight(connecting)) => nSockets' = nSockets]_vars

\* two callers issued commands while the first attempt was in flight, and
\* there is still one socket
SingleSocketWitness ==
  /\ nSockets = 1
  /\ Cardinality({j \in JobIds : jobs[j].kind = "CMD" /\ jobs[j].issuedIn = 1}) >= 2
  /\ \E j \in JobIds : jobs[j].kind = "CMD" /\ jobs[j].att = 1 /\ jobs[j].sock = 0
                       /\ \E k \in JobIds : jobs[k].kind = "CMD" /\ k < j /\ jobs[k].status = "waiting"

\* C6: no caller command is written to a socket before the handshake of that
\* socket is complete
NoCommandBeforeHandshake ==
  \A j \in JobIds : (jobs[j].kind = "CMD" /\ jobs[j].sock # 0) => jobs[j].hsAt = "done"

\* C7: a socket whose handshake failed is destroyed once the failure has been
\* handled
FailedHandshakeDestroysSocket ==
  \A a \in SocketIds :
    (promise[a] = "rejected" /\ NoHandshakeStep) => sock[a].st \in {"destroyed", "closed"}

\* C8: once an attempt has failed and the continuations have run, every
\* caller command issued while it was in flight is rejected
FailedHandshakeFailsAll ==
  \A a \in SocketIds : \A j \in JobIds :
    (promise[a] = "rejected" /\ Idle /\ jobs[j].kind = "CMD" /\ jobs[j].issuedIn = a)
       => jobs[j].status = "rejected"

\* C9: the buffer holds bytes of the current socket only, the queue holds
\* requests of the current socket only, and every frame that completed a
\* request consisted of bytes received on the socket the request was
\* written to
NoCrossConnection ==
  /\ \A i \in 1..Len(bufSrc) : bufSrc[i] = socket
  /\ \A i \in 1..Len(pending) : jobs[pending[i]].sock = socket
  /\ \A j \in JobIds : ByFrame(j) => jobs[j].src = {jobs[j].sock}

\* the first connection was lost after the store had answered a command
\* whose request was then rejected by the loss; a request of the second
\* connection was completed by a frame
NoCrossConnectionWitness ==
  /\ \E j \in JobIds : /\ jobs[j].sock = 1 /\ ~ByFrame(j) /\ jobs[j].status = "rejected"
                       /\ jobs[j].sendOrd <= sock[1].srv
                       /\ sock[1].nFrames < sock[1].srv
  /\ \E k \in JobIds : jobs[k].sock = 2 /\ ByFrame(k)


\* the part of the stream received so far
Fed == SubSeq(Flatten(stream), 1, Len(Flatten(stream)) - Len(sock[1].wire))

\* C10: however the bytes received so far were split into chunks, the
\* requests completed, the values they got, the queue and the buffer are
\* those of a single data event carrying all these bytes
ChunkingIndependence ==
  LET one == onData(Connected(nJobs, <<>>), Fed, 1) IN
  /\ jobs = one.jobs
  /\ pending = one.pending
  /\ buffer = one.buffer

\* a chunk ended inside the last frame of the stream after the first frame
\* had been delivered in an earlier chunk
ChunkingWitness ==
  /\ buffer # <<>>
  /\ sock[1].wire # <<>>
  /\ nJobs >= 2
  /\ jobs[1].status \in {"resolved", "rejected"}
  /\ Len(Fed) > Len(buffer) + 1


\* offset in the stream at which its k-th frame ends
FrameEnd(k) == Len(Flatten(SubSeq(stream, 1, k)))

\* number of frames of the stream received in full
Whole == CHOOSE k \in 0..Len(stream) :
           /\ FrameEnd(k) <= Len(Fed)
           /\ \A m \in 0..Len(stream) : FrameEnd(m) <= Len(Fed) => m <= k

\* the received bytes of the frame that is not yet complete
Partial == SubSeq(Fed, FrameEnd(Whole) + 1, Len(Fed))

\* the bytes the last data event delivered
Delivered == SubSeq(sock[1].wire, 1, Len(sock[1].wire) - Len(sock[1].wire'))

\* C11: while only a proper prefix of the next frame has been received, the
\* decoder reports incomplete, the buffer holds exactly the bytes of that
\* prefix and the request the frame answers is still queued and pending; a
\* data event that completes no frame appends its bytes to the buffer and
\* changes neither the queue nor any request
IncompleteConsumesNothing ==
  /\ [](/\ ~tryParseResp(Partial).ok
        /\ buffer = Partial
        /\ pending = [i \in 1..(nJobs - Whole) |-> Whole + i]
        /\ \A i \in 1..Len(pending) : jobs[pending[i]].status = "pending")
  /\ [][Whole' = Whole => /\ buffer' = buffer \o Delivered
                          /\ pending' = pending
                          /\ jobs' = jobs]_vars

\* the header of an array and its first element have been received, its
\* second element only in part, after an earlier frame was delivered
IncompleteWitness ==
  /\ Whole = 1
  /\ Len(stream) = 2
  /\ stream[2] = ArrayFrame(<<IntegerFrame(1), BulkFrame(StrA)>>)
  /\ Len(Partial) \in 9..(Len(stream[2]) - 1)
  /\ buffer = Partial
  /\ jobs[2].status = "pending"


\* ------------------------------------------------------------------------
\* The decoder fed with streams that contain a structurally invalid frame
\* ------------------------------------------------------------------------
StrX == <<120>>
UnknownTagFrame == StrX \o CRLF
BadLengthBulk == <<DOLLAR>> \o StrX \o CRLF
NegativeLengthBulk == <<DOLLAR>> \o IntToString(0 - 2) \o CRLF
BadCountArray == <<STAR>> \o StrX \o CRLF
NegativeCountArray == <<STAR>> \o IntToString(0 - 2) \o CRLF

MalformedFrames ==
  {UnknownTagFrame, BadLengthBulk, NegativeLengthBulk, BadCountArray, NegativeCountArray}

MalformedSeqs ==
  {fs \in UNION {[1..n -> ReplyFrames \cup MalformedFrames] : n \in 1..MaxFrames} :
     \E k \in 1..Len(fs) : fs[k] \in MalformedFrames}

InitMalformed ==
  /\ info = [username |-> NoString, password |-> NoString, db |-> NoDb]
  /\ \E fs \in MalformedSeqs :
       /\ stream = fs
       /\ Holds(Connected(Len(fs), Flatten(fs)))
  /\ RateOff
  /\ TokenOff

SpecMalformed == InitMalformed /\ [][NextChunk]_vars

\* C12: once a frame with an unknown type tag, a non-numeric length or a
\* negative length other than -1 has been received in full, the connection
\* has been torn down and the request it would answer, like every request
\* queued behind it, has been rejected
MalformedTearsDown ==
  \A k \in 1..Whole :
    stream[k] \in MalformedFrames =>
      /\ socket = 0
      /\ \A j \in k..nJobs : jobs[j].status = "rejected"


\* the bytes of the stream that follow its k-th frame
After(k) == SubSeq(Flatten(stream), FrameEnd(k) + 1, Len(Flatten(stream)))

\* the decoder's result on the stream from its k-th frame on
DecodeFrom(k) == tryParseResp(stream[k] \o After(k))

\* C13: a bulk string of length -1 decodes to null and one of length 0 to
\* the empty string, an array of count -1 decodes to null and one of count 0
\* to the empty array; each time exactly the frame is consumed (for the nulls
\* the header line, no following frame being taken for content or element),
\* and the request the frame answers is resolved with that value
NullVersusEmpty ==
  \A k \in 1..Len(stream) :
    LET expect(v) == /\ DecodeFrom(k) = [ok |-> TRUE, value |-> v, rest |-> After(k)]
                     /\ k <= Whole => jobs[k].status = "resolved" /\ jobs[k].value = v
    IN /\ stream[k] = NullBulkFrame => expect(JsNull)
       /\ stream[k] = BulkFrame(<<>>) => expect(JsString(<<>>))
       /\ stream[k] = NullArrayFrame => expect(JsNull)
       /\ stream[k] = ArrayFrame(<<>>) => expect(JsArray(<<>>))

\* a null array followed by an empty bulk string, both delivered
NullVersusEmptyWitness ==
  /\ Len(stream) = 2
  /\ Whole = 2
  /\ stream[1] = NullArrayFrame
  /\ stream[2] = BulkFrame(<<>>)
  /\ jobs[1].value = JsNull
  /\ jobs[2].value = JsString(<<>>)


\* ------------------------------------------------------------------------
\* The encoder composed with the decoder: the bytes of an encoded command
\* arrive as the reply to the one pending request, which made the command
\* ------------------------------------------------------------------------
MaxParts == 2

StrEAcute == <<233>>
StrEuro == <<8364>>
StrPair == <<55357, 56832>>
StrLoneHigh == <<55357>>
StrLoneLow == <<97, 56832>>

Arguments ==
  {<<>>, StrA, CRLF, StrA \o CRLF \o StrA, StrEAcute, StrEuro, StrPair, StrLoneHigh, StrLoneLow}

CommandLists == UNION {[1..n -> Arguments] : n \in 0..MaxParts}

InitRoundTrip ==
  /\ info = [username |-> NoString, password |-> NoString, db |-> NoDb]
  /\ \E parts \in CommandLists :
       LET S == Connected(1, encodeCommand(parts)) IN
       /\ stream = <<encodeCommand(parts)>>
       /\ Holds([S EXCEPT !.jobs[1].parts = parts])
  /\ RateOff
  /\ TokenOff

SpecRoundTrip == InitRoundTrip /\ [][NextChunk]_vars

\* the string holds no surrogate code unit without its partner
RECURSIVE WellFormed(_)
WellFormed(cp) ==
  IF cp = <<>> THEN TRUE
  ELSE IF Head(cp) \in HighSurrogates
  THEN Len(cp) >= 2 /\ cp[2] \in LowSurrogates /\ WellFormed(SubSeq(cp, 3, Len(cp)))
  ELSE Head(cp) \notin LowSurrogates /\ WellFormed(Tail(cp))

\* the decoder has turned the encoded command back into the list of strings
\* it was made from and no byte is left over
RoundTripDone ==
  /\ jobs[1].status = "resolved"
  /\ jobs[1].value = JsArray([i \in 1..Len(jobs[1].parts) |-> JsString(jobs[1].parts[i])])
  /\ buffer = <<>>
  /\ tryParseResp(stream[1]).rest = <<>>

InitRate ==
  /\ info = [username |-> NoString, password |-> NoString, db |-> NoDb]
  /\ InitClient
  /\ stream = <<>>
  /\ url \in RedisUrls
  /\ store = [k \in RateKeys |-> NoKey]
  /\ now = 0
  /\ reqs = [r \in ReqIds |-> NoRequest]
  /\ win = [k \in RateKeys |-> NoWindow]
  /\ life = [k \in RateKeys |-> NoLife]
  /\ TokenOff

NextRate ==
  /\ \/ \E r \in ReqIds : RateStart(r, <<"ip">>)
     \/ \E r \in ReqIds : RateDisabled(r)
     \/ \E r \in ReqIds, out \in Outcomes : Incr(r, out)
     \/ \E r \in ReqIds, out \in Outcomes : ExpireFirst(r, out)
     \/ \E r \in ReqIds, out \in Outcomes : Ttl(r, out)
     \/ \E r \in ReqIds, out \in Outcomes : ReArm(r, out)
     \/ Tick
  /\ UNCHANGED <<win, life>>
  /\ UNCHANGED tokenVars

SpecRate == InitRate /\ [][NextRate]_vars

\* Requests one after the other, every command answered, the clock of the
\* windows running beside the store
InitRateSeq ==
  /\ InitRate
  /\ url = GoodUrl

NextRateSeq ==
  /\ \/ \E rules \in RuleLists : RateStart(1, rules)
     \/ \E r \in ReqIds : Incr(r, "ok")
     \/ \E r \in ReqIds : ExpireFirst(r, "ok")
     \/ \E r \in ReqIds : Ttl(r, "ok")
     \/ \E r \in ReqIds : ReArm(r, "ok")
     \/ Tick
  /\ win' = Observed
  /\ UNCHANGED life
  /\ UNCHANGED tokenVars

SpecRateSeq == InitRateSeq /\ [][NextRateSeq]_vars


\* ------------------------------------------------------------------------
\* Vocabulary of the rate limiter's properties
\* ------------------------------------------------------------------------
\* the check of request r returns in this step
Returns(r) == InLoop(r) /\ Len(reqs'[r].results) = Len(reqs[r].results) + 1

\* what it returns
Result(r) == reqs'[r].results[Len(reqs'[r].results)]

\* C15: with checks made one after the other, a check that is the n-th of
\* its window (which starts when the first EXPIRE of the counter is applied
\* and lasts windowSeconds by the clock) returns count n, allowed when n is
\* at most the limit and refused beyond; the first check after the window
\* has elapsed is the first of a new window and is allowed
FixedWindow ==
  [][\A r \in ReqIds :
       Returns(r) =>
         LET k == KeyOf(r) IN
         /\ ~Result(r).null
         /\ Result(r).count = win[k].n
         /\ Result(r).ok <=> win[k].n <= Rule(k).limit]_vars

\* the window before saw a refused check, and the first check after it has
\* returned allowed with count 1
FixedWindowWitness ==
  /\ win["ip"].prev > RateLimit
  /\ win["ip"].n = 1
  /\ reqs[1].pc = "passed"
  /\ reqs[1].results = <<[null |-> FALSE, ok |-> TRUE, count |-> 1,
                           remaining |-> RateLimit - 1, resetSeconds |-> Window,
                           why |-> "none"]>>


\* C16: every result of a check that reached the store says allowed exactly
\* when its count is at most the limit of its rule, and its remaining is the
\* limit minus the count where that is positive and 0 otherwise
AllowedIffWithinLimit ==
  \A r \in ReqIds : \A i \in 1..Len(reqs[r].results) :
    LET res == reqs[r].results[i]
        limit == Rule(reqs[r].rules[i]).limit
    IN ~res.null =>
         /\ res.ok <=> res.count <= limit
         /\ res.remaining = (IF res.count < limit THEN limit - res.count ELSE 0)
         /\ res.remaining >= 0

\* one request was refused with a count above the limit and nothing
\* remaining while another was allowed with the last unit of the limit
AllowedIffWitness ==
  \E r, p \in ReqIds :
    /\ reqs[r].pc = "rejected"
    /\ reqs[r].results[1].count = RateLimit + 1
    /\ reqs[r].results[1].remaining = 0
    /\ reqs[p].pc = "passed"
    /\ reqs[p].results[1].count = RateLimit
    /\ reqs[p].results[1].ok


\* request r applies an EXPIRE to an existing counter in this step
Expires(r) ==
  /\ reqs[r].pc \in {"expire", "rearm"}
  /\ reqs'[r] # reqs[r]
  /\ store'[KeyOf(r)].nExp = store[KeyOf(r)].nExp + 1

\* C17 as stated: between its creation and its expiry a counter has its time
\* to live set at most once, however the checks interleave
TtlSetOnce == \A k \in RateKeys : store[k].nExp <= 1

\* C17: an EXPIRE is applied only by the check whose INCR returned 1 or by a
\* check whose own TTL query reported no time to live; as long as no two
\* checks on the key have overlapped since the counter was created, its
\* time to live has been set at most once
TtlSetOnceUnlessOverlap ==
  /\ [](\A k \in RateKeys : store[k].solo => store[k].nExp <= 1)
  /\ [][\A r \in ReqIds :
          Expires(r) => \/ reqs[r].pc = "expire" /\ reqs[r].count = 1
                        \/ reqs[r].pc = "rearm" /\ reqs[r].ttl < 0]_vars

\* a counter whose checks never overlapped has counted three checks and had
\* its time to live set once; the third check has returned
TtlSetOnceWitness ==
  /\ store["ip"].solo
  /\ store["ip"].val = 3
  /\ store["ip"].nExp = 1
  /\ \E r \in ReqIds : /\ reqs[r].pc = "passed"
                        /\ reqs[r].results[1].count = 3


\* C18: a check that finds the counter without time to live sets it to
\* windowSeconds before it returns, and when a check returns a result the
\* counter has a time to live or does not exist
ReArmed ==
  [][\A r \in ReqIds :
       LET k == KeyOf(r) IN
       /\ Expires(r) => store'[k].ttl = Rule(k).windowSeconds
       /\ (Returns(r) /\ ~Result(r).null) =>
            \/ store'[k].val = 0
            \/ store'[k].ttl \in 1..Rule(k).windowSeconds]_vars

\* the check that created the counter failed before the time to live was
\* set; the next check, alone on the key, has set it and returned its result
ReArmedWitness ==
  /\ store["ip"].solo
  /\ store["ip"].val = 2
  /\ store["ip"].nExp = 1
  /\ store["ip"].ttl = Window
  /\ \E r \in ReqIds : /\ reqs[r].pc = "passed"
                        /\ reqs[r].results[1].count = 2
                        /\ reqs[r].results[1].why = "rearmed"
                        /\ reqs[r].results[1].resetSeconds = Window


\* C19: no check ends with an exception; a check made without a usable URL
\* sends no command and returns null; a check that returns null, for that
\* reason or because a command failed, lets the request go on to the next
\* rule or past the loop without a refusal and without touching the headers
CheckNeverThrows ==
  /\ [](\A r \in ReqIds : reqs[r].pc # "thrown")
  /\ [](~getRedisOptional(url) =>
          /\ store = [k \in RateKeys |-> NoKey]
          /\ \A r \in ReqIds : \A i \in 1..Len(reqs[r].results) : reqs[r].results[i].null)
  /\ [][\A r \in ReqIds :
          InLoop(r) /\ reqs'[r] # reqs[r] /\ reqs'[r].pc \notin {"expire", "ttl", "rearm"} =>
            /\ Returns(r)
            /\ Result(r).null =>
                 /\ reqs'[r].pc \in {"call", "passed"}
                 /\ reqs'[r].headers = reqs[r].headers]_vars

\* the EXPIRE of the check that created the counter failed: the check
\* returned null and the request passed the loop with no header set
CheckNeverThrowsWitness ==
  /\ store["ip"].val = 1
  /\ store["ip"].ttl = 0 - 1
  /\ reqs[1].pc = "passed"
  /\ reqs[1].results = <<NoResult("threw")>>
  /\ reqs[1].headers = NoHeaders
  /\ ~InLoop(2)


\* C20: a request checks its rules in the order of its list, one result per
\* rule; it is rejected exactly when its last result is a refusal, and a
\* counter is incremented only for the rule a request is about to check,
\* all its earlier rules having been checked without a refusal
ShortCircuit ==
  /\ [](\A r \in ReqIds :
          LET n == Len(reqs[r].results) IN
          /\ InLoop(r) => reqs[r].i = n + 1 /\ n < Len(reqs[r].rules)
          /\ \A i \in 1..(n - 1) : reqs[r].results[i].ok
          /\ reqs[r].pc = "rejected" <=> (n > 0 /\ ~reqs[r].results[n].ok)
          /\ reqs[r].pc = "passed" => n = Len(reqs[r].rules))
  /\ [][\A k \in RateKeys :
          Incremented(k) =>
            \E r \in ReqIds :
              /\ reqs[r].pc = "call"
              /\ reqs'[r] # reqs[r]
              /\ reqs[r].rules[Len(reqs[r].results) + 1] = k
              /\ \A i \in 1..Len(reqs[r].results) : reqs[r].results[i].ok]_vars

\* a request with two rules was refused by the first and is rejected; the
\* counter of its second rule has never been incremented
ShortCircuitWitness ==
  /\ reqs[1].rules = <<"ip", "id">>
  /\ reqs[1].pc = "rejected"
  /\ Len(reqs[1].results) = 1
  /\ reqs[1].results[1].count = RateLimit + 1
  /\ store["id"].val = 0
  /\ win["id"].n = 0


\* ------------------------------------------------------------------------
\* The captcha of one token: issuance, then verifications in any
\* interleaving, commands that may fail, every configuration of the URL
\* ------------------------------------------------------------------------
InitToken ==
  /\ info = [username |-> NoString, password |-> NoString, db |-> NoDb]
  /\ InitClient
  /\ stream = <<>>
  /\ RateOff
  /\ TokenOff

InitTokenAny ==
  /\ info = [username |-> NoString, password |-> NoString, db |-> NoDb]
  /\ InitClient
  /\ stream = <<>>
  /\ url \in RedisUrls
  /\ store = [k \in RateKeys |-> NoKey]
  /\ now = 0
  /\ reqs = [r \in ReqIds |-> NoRequest]
  /\ win = [k \in RateKeys |-> NoWindow]
  /\ life = [k \in RateKeys |-> NoLife]
  /\ TokenOff

NextToken ==
  /\ \/ \E out \in Outcomes : IssueCaptcha(out)
     \/ \E r \in ReqIds, guess \in Guesses : VerifyStart(r, guess)
     \/ \E r \in ReqIds, out \in Outcomes : VerifyGet(r, out)
     \/ \E r \in ReqIds, out \in Outcomes : VerifyIncr(r, out)
     \/ \E r \in ReqIds, out \in Outcomes : VerifyExpire(r, out)
     \/ \E r \in ReqIds, out \in Outcomes : VerifyDelLock(r, out)
     \/ \E r \in ReqIds, out \in Outcomes : VerifyDelOk(r, out)
     \/ TokenTick
  /\ UNCHANGED tally

SpecToken == InitTokenAny /\ [][NextToken]_vars

\* Verifications one after the other against a reachable store, every
\* command answered
NextTokenSeq ==
  /\ \/ IssueCaptcha("ok")
     \/ \E guess \in Guesses : VerifyStart(1, guess)
     \/ \E r \in ReqIds : VerifyGet(r, "ok")
     \/ \E r \in ReqIds : VerifyIncr(r, "ok")
     \/ \E r \in ReqIds : VerifyExpire(r, "ok")
     \/ \E r \in ReqIds : VerifyDelLock(r, "ok")
     \/ \E r \in ReqIds : VerifyDelOk(r, "ok")
     \/ TokenTick
  /\ tally' = Tallied

SpecTokenSeq == InitToken /\ [][NextTokenSeq]_vars

\* Verifications in any interleaving against a reachable store, every
\* command answered
NextTokenRace ==
  /\ \/ IssueCaptcha("ok")
     \/ \E r \in ReqIds, guess \in Guesses : VerifyStart(r, guess)
     \/ \E r \in ReqIds : VerifyGet(r, "ok")
     \/ \E r \in ReqIds : VerifyIncr(r, "ok")
     \/ \E r \in ReqIds : VerifyExpire(r, "ok")
     \/ \E r \in ReqIds : VerifyDelLock(r, "ok")
     \/ \E r \in ReqIds : VerifyDelOk(r, "ok")
     \/ TokenTick
  /\ tally' = Tallied

SpecTokenRace == InitToken /\ [][NextTokenRace]_vars

\* ------------------------------------------------------------------------
\* Properties of the captcha
\* ------------------------------------------------------------------------
\* verification r answers in this step
Answers(r) == vreqs[r].pc # "done" /\ vreqs'[r].pc = "done"

\* verification r gets the reply of its GET in this step
Looks(r) == vreqs[r].pc = "get" /\ vreqs'[r].pc # "get"

\* C21: when verifications come one after the other and every command is
\* answered, a guess equal to the stored code, after at most four
\* mismatches, is answered ok with the code record and the mismatch counter
\* deleted, and every later guess for the token is answered expired,
\* whatever it is.
SingleUse ==
  [][\A r \in ReqIds :
       /\ (Looks(r) /\ tok.code /\ vreqs[r].guess = StrCode) =>
            (vreqs'[r].pc = "del_ok" /\ tally.wrongs <= MaxFails - 1)
       /\ (vreqs[r].pc = "del_ok" /\ vreqs'[r].pc # "del_ok") =>
            (vreqs'[r].outcome = "ok" /\ ~tok'.code /\ tok'.fails = 0)
       /\ (Looks(r) /\ tally.oks >= 1) => vreqs'[r].outcome = "expired"]_vars

\* the code was accepted after a mismatch and a later verification with the
\* code again was answered expired
SingleUseWitness ==
  /\ tally.oks = 1
  /\ tally.wrongs >= 1
  /\ vreqs[1].guess = StrCode
  /\ vreqs[1].outcome = "expired"

\* C22: for one issued token and any interleaving of the commands of
\* concurrent verifications, at most one verification is ever answered ok.
AtMostOneOk == tally.oks <= 1

\* C23: five wrong guesses in a row, made one after the other while the
\* code record is valid: the first four are answered mismatch, with 4, 3, 2
\* and 1 attempts remaining, the fifth is answered lockout and deletes both
\* records, and a later verification is answered expired, with the correct
\* code too.
FiveStrikes ==
  [][\A r \in ReqIds :
       /\ (vreqs[r].pc \in {"incr", "expire"} /\ Answers(r)) =>
            /\ vreqs'[r].outcome = "mismatch"
            /\ tok.code => vreqs'[r].fails = tally.wrongs
            /\ tok.code => MaxFails - vreqs'[r].fails \in 1..(MaxFails - 1)
       /\ (vreqs[r].pc = "incr" /\ vreqs'[r].pc # "incr" /\ tally.wrongs = MaxFails /\ tok.code) =>
            vreqs'[r].pc = "del_lock"
       /\ (vreqs[r].pc = "del_lock" /\ vreqs'[r].pc # "del_lock") =>
            (vreqs'[r].outcome = "locked" /\ ~tok'.code /\ tok'.fails = 0)
       /\ (Looks(r) /\ tally.wrongs >= MaxFails) => vreqs'[r].outcome = "expired"]_vars

\* five wrong guesses were made, the fifth was answered lockout, no guess
\* was accepted, and the correct code is answered expired
FiveStrikesWitness ==
  /\ tally.locks = 1
  /\ tally.wrongs = MaxFails
  /\ tally.oks = 0
  /\ vreqs[1].guess = StrCode
  /\ vreqs[1].outcome = "expired"

\* C24: in any interleaving of concurrent verifications, at most five
\* guesses are ever compared with the stored code, and no verification is
\* answered ok once five wrong guesses have been made.
BoundedAttempts ==
  /\ [](tally.compared <= MaxFails)
  /\ [][\A r \in ReqIds :
          (Answers(r) /\ vreqs'[r].outcome = "ok") => tally.wrongs < MaxFails]_vars

\* C25: a captcha issued with the code in a cookie, because the store was
\* configured and could not be reached, is verified by the cookie-only
\* comparison: a request with that cookie is answered by that comparison,
\* and with the correct guess it passes.
DegradedEndToEnd ==
  \A r \in ReqIds :
    (issued = "code" /\ vreqs[r].pc = "done" /\ vreqs[r].guess # NoString) =>
      /\ vreqs[r].outcome \in {"ok", "mismatch_cookie"}
      /\ vreqs[r].guess = StrCode => vreqs[r].outcome = "ok"

\* C26: a verification one of whose commands (GET, INCR, EXPIRE, DEL) fails
\* is answered service unavailable: it is not granted, not answered expired
\* or mismatch, and does not go on to the employee lookup.
FailureIsUnavailable ==
  \A r \in ReqIds :
    vreqs[r].threw # "none" => (vreqs[r].pc = "done" /\ vreqs[r].outcome = "busy")

\* the DEL of a correct guess failed in one verification, the INCR of a
\* wrong guess in another
FailureWitness ==
  /\ vreqs[1].threw = "del_ok"
  /\ vreqs[2].threw = "incr"

\* C27: with the store, the response clears the cookie of the token after
\* ok, expired and lockout and leaves it after a mismatch; without the store
\* every verification clears the cookie that carries the code.
CookieCleared ==
  \A r \in ReqIds :
    vreqs[r].pc = "done" =>
      /\ (getRedisOptional(url) /\ vreqs[r].outcome \in {"ok", "expired", "locked"}) =>
           vreqs[r].setCookie = "rise_captcha_id"
      /\ (getRedisOptional(url) /\ vreqs[r].outcome = "mismatch") =>
           vreqs[r].setCookie = "none"
      /\ ~getRedisOptional(url) => vreqs[r].setCookie = "rise_captcha"

\* a mismatch that left the cookie and a lockout that cleared it
CookieClearedWitness ==
  /\ vreqs[1].outcome = "locked"
  /\ vreqs[1].setCookie = "rise_captcha_id"
  /\ vreqs[2].outcome = "mismatch"
  /\ vreqs[2].setCookie = "none"

\* C28: the mismatch counter gets, when the first wrong guess creates it,
\* the time to live the code record has left, and the counter never
\* outlives the code record.
CounterWithinCode ==
  /\ [](tok.fails > 0 => tok.code)
  /\ [][(tok.failsTtl = 0 - 1 /\ tok'.failsTtl > 0) => tok'.failsTtl = tok.codeTtl]_vars

\* ------------------------------------------------------------------------
\* Properties of the handshake and of error replies
\* ------------------------------------------------------------------------
\* a command of kind k written on socket a has been answered with a value
Answered(k, a) ==
  \E j \in JobIds : /\ jobs[j].kind = k
                     /\ jobs[j].sock = a
                     /\ jobs[j].status = "resolved"
                     /\ ByFrame(j)

\* C29: the connect handler sends AUTH first, with username and password
\* when both are present, with the password alone when there is no
\* username, and not at all without a password; when its reply has come it
\* sends SELECT, exactly when a namespace index was specified; when that
\* reply has come, and not before, ensureConnected completes.
HandshakeSequence ==
  /\ \A j \in JobIds :
       /\ jobs[j].kind = "AUTH" =>
            /\ info.password # NoString
            /\ jobs[j].parts = IF info.username # NoString
                               THEN <<StrAUTH, info.username, info.password>>
                               ELSE <<StrAUTH, info.password>>
            /\ jobs[j].sock # 0 => jobs[j].hsAt = "tcp"
       /\ jobs[j].kind = "SELECT" =>
            /\ info.db # NoDb
            /\ jobs[j].parts = <<StrSELECT, IntToString(info.db)>>
            /\ (jobs[j].sock # 0 /\ info.password # NoString) =>
                 (jobs[j].hsAt = "auth" /\ Answered("AUTH", jobs[j].sock))
            /\ (jobs[j].sock # 0 /\ info.password = NoString) => jobs[j].hsAt = "tcp"
  /\ \A a \in SocketIds :
       /\ hs[a].pc = "auth" => jobs[hs[a].job].kind = "AUTH"
       /\ hs[a].pc = "select" => jobs[hs[a].job].kind = "SELECT"
       /\ (hs[a].pc \in {"auth", "select"} /\ ~Settled(hs[a].job)) => promise[a] # "resolved"
       /\ promise[a] = "resolved" =>
            /\ hs[a].pc = "done"
            /\ info.password # NoString => Answered("AUTH", a)
            /\ info.db # NoDb => Answered("SELECT", a)

\* a connection with username, password and namespace index has completed
\* its handshake
HandshakeSequenceWitness ==
  /\ info.username # NoString
  /\ info.db # NoDb
  /\ promise[1] = "resolved"
  /\ Answered("AUTH", 1)
  /\ Answered("SELECT", 1)

\* caller command j is rejected in this step by the error reply decoded for it
ErrorReplied(j) ==
  /\ jobs[j].kind = "CMD"
  /\ jobs[j].status = "pending"
  /\ jobs'[j].status = "rejected"
  /\ jobs'[j].frameOrd # 0

\* C30: an error reply to a caller's command rejects the pending request it
\* is correlated with and nothing else: the socket stays open and current,
\* the requests behind it stay queued in their order, and every request
\* completed in the same step or later is completed by its own reply.
ErrorReplyIsLocal ==
  [][\A j \in JobIds : ErrorReplied(j) =>
       /\ jobs'[j].frameOrd = jobs'[j].sendOrd
       /\ socket' = socket
       /\ connecting' = connecting
       /\ \A s \in SocketIds : /\ sock'[s].st = sock[s].st
                                /\ sock'[s].listeners = sock[s].listeners
       /\ \E n \in 1..Len(pending) : pending' = SubSeq(pending, n + 1, Len(pending))
       /\ \A k \in JobIds :
            (jobs[k].status = "pending" /\ jobs'[k].status # "pending") =>
              (~InPending(k)' /\ jobs'[k].frameOrd = jobs'[k].sendOrd)
       /\ \A k \in JobIds :
            (jobs[k].status = "pending" /\ jobs'[k].status = "pending") => InPending(k)']_vars

\* a caller's command was rejected by an error reply and the command sent
\* after it on the same socket was resolved by its own reply
ErrorReplyWitness ==
  \E j, k \in JobIds :
    /\ jobs[j].kind = "CMD" /\ jobs[j].status = "rejected" /\ ByFrame(j)
    /\ jobs[k].kind = "CMD" /\ jobs[k].status = "resolved" /\ ByFrame(k)
    /\ jobs[k].sock = jobs[j].sock
    /\ jobs[k].sendOrd = jobs[j].sendOrd + 1
    /\ jobs[k].value.n = k
    /\ socket = jobs[j].sock
    /\ sock[socket].st = "open"


\* ------------------------------------------------------------------------
\* Checks on one key in any interleaving, every command answered, the
\* lifetimes of the counter recorded beside the store
\* ------------------------------------------------------------------------
NextRateRace ==
  /\ \/ \E r \in ReqIds : RateStart(r, <<"ip">>)
     \/ \E r \in ReqIds : Incr(r, "ok")
     \/ \E r \in ReqIds : ExpireFirst(r, "ok")
     \/ \E r \in ReqIds : Ttl(r, "ok")
     \/ \E r \in ReqIds : ReArm(r, "ok")
     \/ Tick
  /\ life' = Lived
  /\ UNCHANGED win
  /\ UNCHANGED tokenVars

SpecRateRace == InitRateSeq /\ [][NextRateRace]_vars

\* request r gets the reply of its INCR, or its failure, in this step
Counts(r) == reqs[r].pc = "call" /\ reqs'[r] # reqs[r] /\ getRedisOptional(url)

\* C31: a check that reaches the store adds exactly one to the counter of
\* its key and to no other, whatever the counter was, below or above the
\* limit, and the count it goes on with is the new value; a counter changes
\* in no other way than by such an INCR or by its expiry.
IncrementsByOne ==
  /\ [][\A r \in ReqIds : Counts(r) =>
          LET k == KeyOf(r) IN
          /\ store'[k].val \in {store[k].val, store[k].val + 1}
          /\ \A o \in RateKeys \ {k} : store'[o].val = store[o].val
          /\ reqs'[r].pc \in {"expire", "ttl"} =>
               (store'[k].val = store[k].val + 1 /\ reqs'[r].count = store'[k].val)
          /\ store'[k].val = store[k].val =>
               (Returns(r) /\ Result(r).null)]_vars
  /\ [][\A k \in RateKeys :
          store'[k].val # store[k].val =>
            \/ store'[k].val = 0
            \/ \E r \in ReqIds : Counts(r) /\ KeyOf(r) = k]_vars
  /\ [](\A r \in ReqIds : \A i \in 1..Len(reqs[r].results) :
          ~reqs[r].results[i].null => reqs[r].results[i].count >= 1)

\* a check made on a counter that stood at the limit has counted one more
\* and was refused
IncrementsByOneWitness ==
  /\ store["ip"].val = RateLimit + 1
  /\ \E r \in ReqIds : /\ reqs[r].pc = "rejected"
                        /\ reqs[r].results[1].count = RateLimit + 1
                        /\ ~reqs[r].results[1].ok

\* C32: however the commands of concurrent checks on a key interleave, of
\* the checks whose INCR falls in one lifetime of the counter, from its
\* creation to its expiry, at most limit return allowed.
AtMostLimitAllowed ==
  \A k \in RateKeys : \A e \in 0..MaxTime : life[k].allowed[e] <= Rule(k).limit

\* checks on the key have overlapped, as many as the limit were allowed in
\* the first lifetime of the counter and one more was refused
AtMostLimitWitness ==
  /\ ~store["ip"].solo
  /\ life["ip"].epoch = 0
  /\ life["ip"].allowed[0] = RateLimit
  /\ \E r \in ReqIds : reqs[r].pc = "rejected"

\* ------------------------------------------------------------------------
\* ensureConnected on a connection that is up
\* ------------------------------------------------------------------------
\* rawCommand, and with it ensureConnected, is called in this step
EnsureCalled == nJobs' = nJobs + 1

\* this.socket is set, not destroyed, and its handshake has resolved
LiveAndReady == socket # 0 /\ ~Destroyed(Cur, socket) /\ promise[socket] = "resolved"

\* C33: called with a live socket whose handshake has completed,
\* ensureConnected opens no socket and leaves socket, buffer and connect
\* marker as they were; nobody is made to wait, and the only entry added to
\* the pending queue and the only bytes written are the caller's own command,
\* pushed and written by rawCommand after ensureConnected has returned.  A
\* socket is created only by a call that finds no socket or a destroyed one,
\* and no attempt in flight.
EnsureIdempotent ==
  /\ [][(EnsureCalled /\ LiveAndReady) =>
          /\ nSockets' = nSockets
          /\ socket' = socket
          /\ buffer' = buffer
          /\ connecting' = connecting
          /\ promise' = promise
          /\ hs' = hs
          /\ waiters' = waiters
          /\ pending' = Append(pending, nJobs')
          /\ sock' = [sock EXCEPT ![socket].out = Append(@, nJobs'),
                                  ![socket].nSent = @ + 1]]_vars
  /\ [][nSockets' # nSockets =>
          /\ nSockets' = nSockets + 1
          /\ EnsureCalled
          /\ socket = 0 \/ Destroyed(Cur, socket)
          /\ connecting = 0]_vars

\* the command that opened the first socket waited for the handshake and was
\* answered; a later command found the socket up and was written at once
EnsureIdempotentWitness ==
  /\ nSockets = 1
  /\ socket = 1
  /\ sock[1].st = "open"
  /\ promise[1] = "resolved"
  /\ \E i, j \in JobIds :
       /\ i < j
       /\ jobs[i].kind = "CMD" /\ jobs[j].kind = "CMD"
       /\ jobs[i].att = 1 /\ jobs[i].status = "resolved"
       /\ jobs[j].att = 0 /\ jobs[j].hsAt = "done"
       /\ jobs[j].sock = 1 /\ jobs[j].status = "pending"
       /\ pending = <<j>>

\* ------------------------------------------------------------------------
\* Progress.  The continuations of settled promises always run; for every
\* socket the client listens to, what the network owes is eventually
\* delivered: the outcome of the connection attempt, the reply to a command
\* the store has received, the bytes in flight and the "close" of a
\* destroyed socket, unless the socket fails first
\* ------------------------------------------------------------------------
NetworkStep(s) ==
  \/ TcpConnect(s)
  \/ \E ok \in BOOLEAN : ServerReply(s, ok)
  \/ CloseEvent(s)

\* a "data" event of socket s is possible: ENABLED <<DataEvent(s)>>_vars
DataDue(s) == Idle /\ sock[s].st = "open" /\ sock[s].listeners /\ sock[s].wire # <<>>

\* WF_vars(DataEvent(s)), its enabling condition written out
DataFair(s) == []<>~DataDue(s) \/ []<><<DataEvent(s)>>_vars

Fairness ==
  /\ WF_vars(ResumeWaiter)
  /\ \A a \in SocketIds : WF_vars(HandshakeContinue(a))
  /\ \A s \in SocketIds : WF_vars(NetworkStep(s))
  /\ \A s \in SocketIds : DataFair(s)

SpecLive == Init /\ [][Next]_vars /\ Fairness

\* the caller of request j is suspended in rawCommand
Blocked(j) == jobs[j].status \in {"waiting", "pending"}

\* C34: every request a caller is suspended on, waiting for the connection
\* attempt or for its reply, is eventually resolved or rejected, provided
\* that the network delivers the replies of the commands written or else
\* reports the error or the close of the socket.
NoCallerBlockedForever ==
  \A j \in JobIds : Blocked(j) ~> Settled(j)

\* a command written to the first socket was rejected by the loss of that
\* socket, a command written to the second was answered, and nobody is left
\* suspended
NoCallerBlockedWitness ==
  /\ \E j \in JobIds : /\ jobs[j].kind = "CMD" /\ jobs[j].sock = 1
                       /\ jobs[j].sendOrd > 0 /\ ~ByFrame(j)
                       /\ jobs[j].status = "rejected"
  /\ \E k \in JobIds : /\ jobs[k].kind = "CMD" /\ jobs[k].sock = 2
                       /\ ByFrame(k) /\ jobs[k].status = "resolved"
  /\ \A j \in JobIds : ~Blocked(j)

\* ------------------------------------------------------------------------
\* The decoder fed with more reply frames than commands were written: the
\* store sends frames nobody asked for
\* ------------------------------------------------------------------------
SurplusFrames ==
  { ErrorFrame(StrA),
    NullBulkFrame,
    BulkFrame(CRLF),
    ArrayFrame(<<IntegerFrame(1), BulkFrame(StrA)>>) }

SurplusSeqs == UNION {[1..n -> SurplusFrames] : n \in 1..MaxFrames}

InitSurplus ==
  /\ info = [username |-> NoString, password |-> NoString, db |-> NoDb]
  /\ \E fs \in SurplusSeqs : \E n \in 0..Len(fs) :
       /\ stream = fs
       /\ Holds([Connected(n, Flatten(fs)) EXCEPT !.sock[1].srv = Len(fs)])
  /\ RateOff
  /\ TokenOff

SpecSurplus == InitSurplus /\ [][NextChunk]_vars

\* C35: between data events the buffer holds no complete frame: it holds
\* exactly the received bytes of the one frame that is not yet complete, or
\* nothing.  Every frame received in full has been taken out of the buffer;
\* as long as requests were queued it completed the oldest of them, with the
\* value it decodes to, and the frames received after the queue had emptied
\* completed no request.
BufferHoldsNoFrame ==
  /\ ~tryParseResp(buffer).ok
  /\ buffer = Partial
  /\ Whole < Len(stream) => Len(buffer) < Len(stream[Whole + 1])
  /\ sock[1].nFrames = Whole
  /\ pending = [i \in 1..(IF nJobs > Whole THEN nJobs - Whole ELSE 0) |-> Whole + i]
  /\ \A j \in 1..nJobs :
       IF j <= Whole
       THEN /\ jobs[j].frameOrd = j
            /\ jobs[j].done = 1
            /\ jobs[j].value = tryParseResp(stream[j]).value
            /\ jobs[j].status = IF jobs[j].value.t = "error" THEN "rejected" ELSE "resolved"
       ELSE jobs[j].status = "pending" /\ jobs[j].frameOrd = 0

\* one request was queued: the first frame completed it, the second found
\* the queue empty and was discarded, and part of a third frame is buffered
\* or the stream has ended
BufferHoldsNoFrameWitness ==
  /\ nJobs = 1
  /\ Whole = 2
  /\ sock[1].nFrames = 2
  /\ jobs[1].frameOrd = 1
  /\ pending = <<>>
  /\ buffer = Partial

\* ------------------------------------------------------------------------
\* Events of a socket the client has dropped
\* ------------------------------------------------------------------------
\* socket s is destroyed or reports "close" in this step
EventOf(s) == sock'[s].st # sock[s].st /\ sock'[s].st \in {"destroyed", "closed"}

\* the catch block of the connect handler of attempt a runs in this step
CatchOf(a) == hs[a].pc # "failed" /\ hs'[a].pc = "failed"

\* an attempt started after attempt a is the current one
Superseded(a) == (socket # 0 /\ socket > a) \/ (connecting # 0 /\ connecting > a)

\* C36: the error or close of a socket, and the catch block of a connect
\* handler, that come when a later attempt has taken the place of theirs
\* leave socket, buffer, connect marker and pending queue of that attempt,
\* and its requests, as they are; the catch block of an attempt never runs
\* that late.
StaleTeardownHarmless ==
  [][\A a \in SocketIds :
       /\ ((EventOf(a) \/ CatchOf(a)) /\ Superseded(a)) =>
            /\ UNCHANGED <<socket, buffer, connecting, pending, jobs, promise, waiters>>
            /\ \A s \in SocketIds \ {a} : sock'[s] = sock[s]
       /\ CatchOf(a) => ~Superseded(a)]_vars

\* the first socket reported its close while the second was the client's
\* socket; the second still is, with a request queued on it
StaleTeardownWitness ==
  /\ sock[1].st = "closed"
  /\ sock[1].late
  /\ socket = 2
  /\ connecting = 2
  /\ sock[2].listeners
  /\ \E j \in JobIds : pending = <<j>> /\ jobs[j].sock = 2 /\ jobs[j].status = "pending"

\* ------------------------------------------------------------------------
\* Time to live of the records of a token
\* ------------------------------------------------------------------------
\* C37: whatever commands of the issuance or of a verification fail, the
\* code record, while it exists, has a time to live of at most the validity
\* period, and so has the mismatch counter, except while the verification
\* that created it is between its INCR and its EXPIRE.
NoImmortalKeys ==
  /\ tok.code => tok.codeTtl \in 1..CaptchaSeconds
  /\ tok.fails > 0 =>
       \/ tok.failsTtl \in 1..CaptchaSeconds
       \/ \E r \in ReqIds : vreqs[r].pc = "expire"

\* ------------------------------------------------------------------------
\* The public query handler from the rate-limit loop to the employee lookup:
\* request r is reqs[r] in the loop of lines 42 to 53 and vreqs[r] in the
\* captcha verification of lines 61 to 108
\* ------------------------------------------------------------------------
QueryRules == <<"ip", "id">>

\* a request reaches line 42
QueryStart(r) ==
  /\ ~Verifying(r)
  /\ RateStart(r, QueryRules)
  /\ vreqs' = [vreqs EXCEPT ![r] = NoVerify]
  /\ UNCHANGED <<tok, issued, win, life>>

\* the request has left the loop without a refusal and reaches line 61
QueryVerify(r, guess) ==
  /\ reqs[r].pc = "passed"
  /\ vreqs[r].pc = "idle"
  /\ VerifyBegin(r, guess)
  /\ UNCHANGED rateOnly

NextQuery ==
  /\ \/ IssueCaptcha("ok")
     \/ \E r \in ReqIds : QueryStart(r)
     \/ \E r \in ReqIds : RateDisabled(r) /\ UNCHANGED <<win, life>> /\ UNCHANGED <<tok, vreqs, issued>>
     \/ \E r \in ReqIds :
          /\ Incr(r, "ok") \/ Incr(r, "fail") \/ ExpireFirst(r, "ok") \/ Ttl(r, "ok")
               \/ ReArm(r, "ok")
          /\ UNCHANGED <<win, life>>
          /\ UNCHANGED <<tok, vreqs, issued>>
     \/ \E r \in ReqIds, guess \in {StrCode, StrWrong} : QueryVerify(r, guess)
     \/ \E r \in ReqIds :
          VerifyGet(r, "ok") \/ VerifyIncr(r, "ok") \/ VerifyExpire(r, "ok")
            \/ VerifyDelLock(r, "ok") \/ VerifyDelOk(r, "ok")
  /\ UNCHANGED tally

SpecQuery == InitTokenAny /\ [][NextQuery]_vars

\* the handler of request r is past line 108, at the employee lookup
AtLookup(r) == vreqs[r].pc = "done" /\ vreqs[r].outcome = "ok"

\* C38: a request is at the captcha verification, or past it at the employee
\* lookup, only when the check of every rule of its list has returned
\* allowed or null; it is at the lookup only when its own verification has
\* answered ok, by the store with its guess equal to the code or by the
\* cookie comparison when no store is configured.  A request refused by a
\* rule has issued no captcha command: the records of the token change only
\* in a step of a verification whose request passed the loop.
GateOrder ==
  /\ [](\A r \in ReqIds :
          /\ vreqs[r].pc # "idle" =>
               /\ reqs[r].pc = "passed"
               /\ Len(reqs[r].results) = Len(reqs[r].rules)
               /\ \A i \in 1..Len(reqs[r].results) :
                    reqs[r].results[i].null \/ reqs[r].results[i].ok
          /\ AtLookup(r) =>
               /\ vreqs[r].guess # NoString
               /\ vreqs[r].threw = "none"
               /\ IF getRedisOptional(url)
                  THEN vreqs[r].captchaId /\ vreqs[r].guess = StrCode
                  ELSE vreqs[r].cookieCode = vreqs[r].guess
          /\ reqs[r].pc = "rejected" => vreqs[r] = NoVerify)
  /\ [][(tok' # tok /\ issued' = issued) =>
          \E r \in ReqIds : /\ vreqs'[r] # vreqs[r]
                            /\ Verifying(r)
                            /\ reqs[r].pc = "passed"
                            /\ reqs'[r] = reqs[r]]_vars

\* one request was refused by its second rule and has not touched the
\* captcha, while another passed both rules, verified its guess at the store
\* and is at the lookup
GateOrderWitness ==
  \E r, p \in ReqIds :
    /\ reqs[r].pc = "rejected"
    /\ Len(reqs[r].results) = 2
    /\ vreqs[r] = NoVerify
    /\ reqs[p].pc = "passed"
    /\ AtLookup(p)
    /\ vreqs[p].captchaId

====
